---- MODULE Spec2Model ----
(***************************************************************************)
(* Session store, completion client and streaming relay of ai-chat.        *)
(*                                                                         *)
(*   src/lib/logger.ts    StorageAdapter, InMemoryStorage, MongoDBStorage,  *)
(*                        getStorage                                       *)
(*   src/lib/claude.ts    streamChatCompletion, createChatCompletion       *)
(*   src/app/layout.tsx   POST /api/chat (lines 146-307)                   *)
(*   src/app/api/chat/history/route.ts   GET /api/chat/history             *)
(*   src/unnamed/part_005 getSessionExpiresAt, isSessionExpired            *)
(*   src/unnamed/part_006 validateImages                                   *)
(*   src/DEPLOYMENT.md    the session module (lines 386-495):              *)
(*                        getOrCreateSession, refreshSession,              *)
(*                        deleteSession, cleanupExpiredSessions            *)
(*                                                                         *)
(* The clock counts seconds and is read at the instants of Instants.  The  *)
(* createdAt of a message is a stamp that orders the messages of its       *)
(* session by creation time: two Dates are equal when their stamps are.    *)
(* A message text is a sequence of tokens, concatenation is \o, and " " is *)
(* the whitespace token.                                                   *)
(***************************************************************************)
EXTENDS Integers, Sequences, FiniteSets, TLC

(***************************************************************************)
(* Bounds of the model.                                                    *)
(***************************************************************************)
NumReqs == 1
MaxOps == 4
MaxTies == 1
MaxEvents == 2
NumCallers == 3
MaxStrLen == 5
MaxMsgs == 2
MaxReads == 2

(***************************************************************************)
(* Program constants.                                                      *)
(***************************************************************************)
MAX_RETRIES == 3
RETRY_DELAY_MS == 1000
MAX_IMAGE_SIZE == 5242880
MAX_IMAGES_PER_MESSAGE == 4
HourSeconds == 3600
DefaultExpirySeconds == 3600

VARIABLES
  now,             \* wall clock, what new Date() / Date.now() reads
  adapterKind,     \* the StorageAdapter objects constructed so far, by kind
  storageInstance, \* logger.ts:421, 0 is null, else an index of adapterKind
  store,           \* contents of every InMemoryStorage and of the database
  hOp, hCount,     \* direct caller of the StorageAdapter: last call, calls made
  caller,          \* direct caller of streamChatCompletion, createChatCompletion
  storageCalls,    \* direct callers of getStorage, one call each
  apiKey,          \* process.env.ANTHROPIC_API_KEY is set
  sessionExpiry,   \* process.env.SESSION_EXPIRY, <<>> when it is not set
  anthropicClient, \* claude.ts:13, FALSE is null
  req,             \* the POST /api/chat handlers, one per request
  pair,            \* two POST /api/chat handlers at work on one session
  client           \* the browser's sendChatMessage call

storeVars == <<adapterKind, storageInstance, store>>
harnessVars == <<hOp, hCount, caller, storageCalls>>
env == <<apiKey, sessionExpiry>>
\* what no step of the server's request slots, callers and jobs writes
aside == <<env, pair, client>>
relayVars == <<aside, anthropicClient, req>>
vars == <<now, storeVars, harnessVars, relayVars>>

Reqs == 1..NumReqs
\* generateSessionId(): the uuid drawn for request n
generateSessionId(n) == "uuid" \o ToString(n)

\* the identifiers a client sends, and all identifiers
ClientSids == {"s1"}

AllSids == ClientSids \cup { generateSessionId(r) : r \in Reqs }

\* the instants the clock is read at: process start, and past the expiry of
\* what was created then
Instants == {0, DefaultExpirySeconds + 1}

(***************************************************************************)
(* Clock/expiry policy (src/unnamed/part_005).                             *)
(***************************************************************************)
\* the values of SESSION_EXPIRY a deployment sets: none, a number of seconds,
\* or text that is no number; a string is the sequence of its characters
ExpirySettings == { <<>>, <<"7", "2", "0", "0">>, <<"s", "o", "o", "n">> }

Digits ==
  [c \in {"0", "1", "2", "3", "4", "5", "6", "7", "8", "9"} |->
     CASE c = "0" -> 0 [] c = "1" -> 1 [] c = "2" -> 2 [] c = "3" -> 3
       [] c = "4" -> 4 [] c = "5" -> 5 [] c = "6" -> 6 [] c = "7" -> 7
       [] c = "8" -> 8 [] c = "9" -> 9]

NaN == [isNaN |-> TRUE, value |-> 0]

RECURSIVE ParseDigits(_, _, _)
\* the leading digits of str read as a decimal number, NaN if there is none
ParseDigits(str, acc, seen) ==
  IF str # <<>> /\ Head(str) \in DOMAIN Digits
  THEN ParseDigits(Tail(str), 10 * acc + Digits[Head(str)], TRUE)
  ELSE IF seen THEN [isNaN |-> FALSE, value |-> acc] ELSE NaN

\* parseInt(str, 10) on unsigned text without leading blanks
parseInt(str) == ParseDigits(str, 0, FALSE)

\* getSessionExpiresAt(): part_005:13-17, in seconds
getSessionExpiresAt(t) ==
  LET parsed == parseInt(IF sessionExpiry = <<>> THEN <<"3", "6", "0", "0">>
                         ELSE sessionExpiry)
      expirySeconds == IF parsed.isNaN THEN DefaultExpirySeconds ELSE parsed.value
  IN t + expirySeconds

\* a predicate that counts the instant of expiry as expired
isSessionExpiredInclusive(expiresAt, t) == t >= expiresAt

\* isSessionExpired(expiresAt): part_005:22-24, t is what new Date() reads
isSessionExpired(expiresAt, t) == t > expiresAt

(***************************************************************************)
(* SessionData values as a caller holds them.  InMemoryStorage hands out   *)
(* the very object kept in its Map ("ref"); MongoDBStorage.mapSession      *)
(* builds a fresh value ("val").                                           *)
(***************************************************************************)
Null == [kind |-> "null", obj |-> 0, expiresAt |-> 0, messages |-> <<>>]

Ref(o) == [kind |-> "ref", obj |-> o, expiresAt |-> 0, messages |-> <<>>]

Val(e, m) == [kind |-> "val", obj |-> 0, expiresAt |-> e, messages |-> m]

SessionMessages(S, sess) ==
  IF sess.kind = "ref" THEN S.heap[sess.obj].messages ELSE sess.messages

SessionExpiresAt(S, sess) ==
  IF sess.kind = "ref" THEN S.heap[sess.obj].expiresAt ELSE sess.expiresAt

MessageData(msg, createdAt) ==
  [role |-> msg.role, content |-> msg.content, createdAt |-> createdAt]

\* A stored session.  appended is a history variable: the messages addMessage
\* was called with on this object or record, in call order.
NewSession(id, exp) ==
  [id |-> id, expiresAt |-> exp, messages |-> <<>>, appended |-> <<>>]

NoRec == NewSession(0, 0)

\* ties counts the message records created in the millisecond of the record
\* created before them in the same session
EmptyStore ==
  [mem |-> <<>>, heap |-> <<>>, db |-> [s \in AllSids |-> NoRec], nextId |-> 2,
   ties |-> 0]

\* a session an earlier run of the server left in the database
DurableSession ==
  LET earlier == << MessageData([role |-> "user", content |-> <<"m0">>], 1),
                    MessageData([role |-> "assistant", content |-> <<"a0">>], 2) >>
  IN [NewSession(1, DefaultExpirySeconds) EXCEPT !.messages = earlier, !.appended = earlier]

\* the store when the server starts: the database holds that session
InitialStore == [EmptyStore EXCEPT !.db["s1"] = DurableSession]

Outcome(threw, ret, S) == [threw |-> threw, ret |-> ret, st |-> S]

(***************************************************************************)
(* InMemoryStorage (logger.ts:182-261).  S.mem[a] is the Map of adapter a, *)
(* from sessionId to an object of S.heap (0: no entry).                    *)
(***************************************************************************)
\* a createSession that keeps the messages of the session it replaces
InMemoryStorage_createSessionMerging(S, a, sid, exp) ==
  LET o == Len(S.heap) + 1
      old == IF S.mem[a][sid] = 0 THEN <<>> ELSE S.heap[S.mem[a][sid]].messages
  IN Outcome(FALSE, Ref(o),
             [S EXCEPT !.heap = Append(@, [NewSession(o, exp) EXCEPT !.messages = old]),
                       !.mem[a][sid] = o])

\* createSession: logger.ts:186-196
InMemoryStorage_createSession(S, a, sid, exp) ==
  LET o == Len(S.heap) + 1
  IN Outcome(FALSE, Ref(o),
             [S EXCEPT !.heap = Append(@, NewSession(o, exp)),
                       !.mem[a][sid] = o])

InMemoryStorage_getSession(S, a, sid, t) ==
  LET o == S.mem[a][sid]
  IN IF o = 0 THEN Outcome(FALSE, Null, S)
     ELSE IF t > S.heap[o].expiresAt
          THEN Outcome(FALSE, Null, [S EXCEPT !.mem[a][sid] = 0])
          ELSE Outcome(FALSE, Ref(o), S)

InMemoryStorage_deleteSession(S, a, sid) ==
  Outcome(FALSE, Null, [S EXCEPT !.mem[a][sid] = 0])

InMemoryStorage_addMessage(S, a, sid, msg, t) ==
  LET g == InMemoryStorage_getSession(S, a, sid, t)
      c == IF g.ret.kind = "null"
           THEN InMemoryStorage_createSession(g.st, a, sid, t + HourSeconds)
           ELSE g
      o == c.ret.obj
      m == MessageData(msg, Len(c.st.heap[o].messages) + 1)
  IN Outcome(FALSE, m,
             [c.st EXCEPT !.heap[o].messages = Append(@, m),
                          !.heap[o].appended = Append(@, m)])

InMemoryStorage_getMessages(S, a, sid, t) ==
  LET g == InMemoryStorage_getSession(S, a, sid, t)
  IN Outcome(FALSE, SessionMessages(g.st, g.ret), g.st)

\* a sweep that also removes the sessions expiring at this very instant
InMemoryStorage_deleteExpiredSessionsInclusive(S, a, t) ==
  LET expired == { sid \in DOMAIN S.mem[a] :
                     /\ S.mem[a][sid] # 0
                     /\ t >= S.heap[S.mem[a][sid]].expiresAt }
  IN Outcome(FALSE, Cardinality(expired),
             [S EXCEPT !.mem[a] = [sid \in DOMAIN @ |->
                                     IF sid \in expired THEN 0 ELSE @[sid]]])

\* the loop over this.sessions.entries(): logger.ts:248-260; ret is the count
InMemoryStorage_deleteExpiredSessions(S, a, t) ==
  LET expired == { sid \in DOMAIN S.mem[a] :
                     /\ S.mem[a][sid] # 0
                     /\ t > S.heap[S.mem[a][sid]].expiresAt }
  IN Outcome(FALSE, Cardinality(expired),
             [S EXCEPT !.mem[a] = [sid \in DOMAIN @ |->
                                     IF sid \in expired THEN 0 ELSE @[sid]]])

(***************************************************************************)
(* MongoDBStorage (logger.ts:266-416).  S.db[sid] is the session record    *)
(* with that unique sessionId (id 0: no record) together with its message  *)
(* records.  Every query may be rejected by the driver; each operator      *)
(* gives the set of its possible outcomes.                                 *)
(***************************************************************************)
DbFail(S) == Outcome(TRUE, Null, S)

NotAfter(c, d) == c <= d

Without(msgs, i) == SubSeq(msgs, 1, i - 1) \o SubSeq(msgs, i + 1, Len(msgs))

RECURSIVE OrderByCreatedAt(_)
\* orderBy: { createdAt: 'asc' } - every arrangement of the records in which
\* createdAt never decreases; the order among equal createdAt is not fixed
OrderByCreatedAt(msgs) ==
  IF msgs = <<>> THEN {<<>>}
  ELSE UNION { { <<msgs[i]>> \o rest : rest \in OrderByCreatedAt(Without(msgs, i)) } :
               i \in { k \in 1..Len(msgs) :
                         \A j \in 1..Len(msgs) :
                            NotAfter(msgs[k].createdAt, msgs[j].createdAt) } }

\* createdAt of a message record being created: later than that of the
\* session's last record or, at most MaxTies times, the same millisecond
CreatedAtNow(S, sid) ==
  LET msgs == S.db[sid].messages
  IN IF msgs = <<>> THEN {1}
     ELSE {msgs[Len(msgs)].createdAt + 1}
          \cup (IF S.ties < MaxTies THEN {msgs[Len(msgs)].createdAt} ELSE {})

MongoDBStorage_createSession(S, sid, exp) ==
  {DbFail(S)} \cup
  IF S.db[sid].id # 0 THEN {}
  ELSE {Outcome(FALSE, Val(exp, <<>>),
                [S EXCEPT !.db[sid] = NewSession(S.nextId, exp),
                          !.nextId = @ + 1])}

MongoDBStorage_getSession(S, sid) ==
  {DbFail(S)} \cup
  IF S.db[sid].id = 0 THEN {Outcome(FALSE, Null, S)}
  ELSE {Outcome(FALSE, Val(S.db[sid].expiresAt, p), S) :
           p \in OrderByCreatedAt(S.db[sid].messages)}

MongoDBStorage_deleteSession(S, sid) ==
  {DbFail(S)} \cup
  IF S.db[sid].id = 0 THEN {}
  ELSE {Outcome(FALSE, Null, [S EXCEPT !.db[sid] = NoRec])}

MongoDBStorage_addMessage(S, sid, msg, t) ==
  LET created == [S EXCEPT !.db[sid] = NewSession(S.nextId, t + HourSeconds),
                           !.nextId = @ + 1]
      S1 == IF S.db[sid].id = 0 THEN created ELSE S
      msgs == S1.db[sid].messages
  IN {DbFail(S), DbFail(S1)} \cup
     { LET m == MessageData(msg, c)
       IN Outcome(FALSE, m,
            [S1 EXCEPT !.db[sid].messages = Append(@, m),
                       !.db[sid].appended = Append(@, m),
                       !.ties = IF msgs # <<>> /\ msgs[Len(msgs)].createdAt = c
                                THEN @ + 1 ELSE @]) :
       c \in CreatedAtNow(S1, sid) }

MongoDBStorage_getMessages(S, sid) ==
  { Outcome(g.threw, g.ret.messages, g.st) : g \in MongoDBStorage_getSession(S, sid) }

\* deleteMany({ where: { expiresAt: { lt: new Date() } } }): logger.ts:365-375;
\* ret is result.count
MongoDBStorage_deleteExpiredSessions(S, t) ==
  LET expired == { sid \in DOMAIN S.db :
                     S.db[sid].id # 0 /\ S.db[sid].expiresAt < t }
  IN {DbFail(S)} \cup
     {Outcome(FALSE, Cardinality(expired),
              [S EXCEPT !.db = [sid \in DOMAIN @ |->
                                  IF sid \in expired THEN NoRec ELSE @[sid]]])}

(***************************************************************************)
(* StorageAdapter (logger.ts:165-177): dispatch on the adapter's class.    *)
(***************************************************************************)
createSession(S, a, sid, exp) ==
  IF adapterKind[a] = "memory" THEN {InMemoryStorage_createSession(S, a, sid, exp)}
  ELSE MongoDBStorage_createSession(S, sid, exp)

getSession(S, a, sid, t) ==
  IF adapterKind[a] = "memory" THEN {InMemoryStorage_getSession(S, a, sid, t)}
  ELSE MongoDBStorage_getSession(S, sid)

deleteSession(S, a, sid) ==
  IF adapterKind[a] = "memory" THEN {InMemoryStorage_deleteSession(S, a, sid)}
  ELSE MongoDBStorage_deleteSession(S, sid)

addMessage(S, a, sid, msg, t) ==
  IF adapterKind[a] = "memory" THEN {InMemoryStorage_addMessage(S, a, sid, msg, t)}
  ELSE MongoDBStorage_addMessage(S, sid, msg, t)

getMessages(S, a, sid, t) ==
  IF adapterKind[a] = "memory" THEN {InMemoryStorage_getMessages(S, a, sid, t)}
  ELSE MongoDBStorage_getMessages(S, sid)

deleteExpiredSessions(S, a, t) ==
  IF adapterKind[a] = "memory" THEN {InMemoryStorage_deleteExpiredSessions(S, a, t)}
  ELSE MongoDBStorage_deleteExpiredSessions(S, t)

\* the session stored under sid as adapter a sees it (id 0: none)
Stored(S, a, sid) ==
  IF adapterKind[a] = "memory"
  THEN (IF S.mem[a][sid] = 0 THEN NoRec ELSE S.heap[S.mem[a][sid]])
  ELSE S.db[sid]

\* the record an addMessage on sid has just left in the store
LastStored(S, a, sid) ==
  Stored(S, a, sid).messages[Len(Stored(S, a, sid).messages)]

(***************************************************************************)
(* The clock.  Time passes between the steps of the program; a step that   *)
(* reads the clock finds it at any instant from the last reading on.       *)
(***************************************************************************)
ClockReadings == { t \in Instants : t >= now }

(***************************************************************************)
(* The upstream completion API as streamChatCompletion sees it: the events *)
(* one messages.stream() call delivers when it is not cut short, and the   *)
(* errors a call may be rejected with.                                     *)
(***************************************************************************)
TextDelta(text) == [type |-> "content_block_delta", delta |-> "text_delta", text |-> text]

\* the text the attempt-th call of a request generates
UpstreamText(attempt) == <<"a" \o ToString(attempt)>>

\* the events of the attempt-th call of a request
UpstreamScript(attempt) ==
  << TextDelta(UpstreamText(attempt)),
     [type |-> "content_block_delta", delta |-> "input_json_delta", text |-> <<"j">>] >>

\* the kinds of event a messages.stream() call delivers
StreamEvents ==
  { TextDelta(<<"x">>), TextDelta(<<"y">>),
    [type |-> "content_block_delta", delta |-> "input_json_delta", text |-> <<"j">>],
    [type |-> "message_delta", delta |-> "", text |-> <<>>] }

\* the event sequences of at most n events
Scripts(n) ==
  UNION { [1..k -> StreamEvents] : k \in 0..n }

\* the Error object the attempt-th upstream call rejects with, by its message
UpstreamError(attempt) == "upstream error " \o ToString(attempt)

\* What a throw statement or a rejection carries: an Error object with its
\* message, or a value that is no Error with what String() makes of it.
Err(message) == [isError |-> TRUE, text |-> message]

NonError(string) == [isError |-> FALSE, text |-> string]

\* the values an SDK call or a query may reject with
Throwables ==
  { Err("Overloaded"), Err(""), NonError("socket closed"), NonError("") }

\* error instanceof Error ? error : new Error(String(error)): claude.ts:115
toError(thrown) == IF thrown.isError THEN thrown ELSE Err(thrown.text)

\* error instanceof Error ? error.message : "Unknown error": layout.tsx:283
errorMessage(thrown) == IF thrown.isError THEN thrown.text ELSE "Unknown error"

(***************************************************************************)
(* streamChatCompletion (claude.ts:78-129) as transitions of the generator *)
(* object g.  g.trace lists the upstream calls and the sleeps in order.    *)
(***************************************************************************)
CallEntry == [k |-> "call", ms |-> 0]

SleepEntry(ms) == [k |-> "sleep", ms |-> ms]

NewGen == [st |-> "new", attempt |-> 0, lastError |-> "", trace |-> <<>>]

ConfigError == "ANTHROPIC_API_KEY environment variable is not set"

\* a getClient that builds the client without looking at the key
getClientUnchecked == FALSE

\* getClient(): claude.ts:18-27
getClientThrows == ~anthropicClient /\ ~apiKey

\* loop head and client.messages.stream(...): claude.ts:92-101
GenOpen(g) ==
  [g EXCEPT !.st = "open", !.attempt = @ + 1, !.trace = Append(@, CallEntry)]

\* a filter that lets every content_block_delta through
IsAnyDelta(ev) == ev.type = "content_block_delta"

\* the condition of the yield: claude.ts:104-110
IsTextDelta(ev) == ev.type = "content_block_delta" /\ ev.delta = "text_delta"

RECURSIVE GenYields(_)
\* what the for-await body yields for a sequence of upstream events
GenYields(evs) ==
  IF evs = <<>> THEN <<>>
  ELSE (IF IsTextDelta(Head(evs)) THEN <<Head(evs).text>> ELSE <<>>)
       \o GenYields(Tail(evs))

\* a catch block that sleeps after the last attempt as well
GenCatchSleepAlways(g, e) ==
  IF g.attempt < MAX_RETRIES
  THEN [g EXCEPT !.st = "sleeping", !.lastError = e,
                 !.trace = Append(@, SleepEntry(RETRY_DELAY_MS * g.attempt))]
  ELSE [g EXCEPT !.st = "threw", !.lastError = e,
                 !.trace = Append(@, SleepEntry(RETRY_DELAY_MS * g.attempt))]

\* catch block and, past the loop, throw lastError: claude.ts:114-128
GenCatch(g, e) ==
  IF g.attempt < MAX_RETRIES
  THEN [g EXCEPT !.st = "sleeping", !.lastError = e,
                 !.trace = Append(@, SleepEntry(RETRY_DELAY_MS * g.attempt))]
  ELSE [g EXCEPT !.st = "threw", !.lastError = e]

\* a generator whose later attempts resume past the first fragment
GenAttemptResume(g, script) ==
  LET caught == GenCatch(g, UpstreamError(g.attempt))
      skip(y) == IF g.attempt > 1 /\ y # <<>> THEN Tail(y) ELSE y
  IN { [yields |-> skip(GenYields(SubSeq(script, 1, k))),
        gen |-> IF caught.st = "sleeping" THEN GenOpen(caught) ELSE caught] :
          k \in 0..Len(script) }
     \cup { [yields |-> skip(GenYields(script)),
             gen |-> [g EXCEPT !.st = "returned"]] }

\* One upstream call from its start to its end, claude.ts:96-124: the stream,
\* whose events are script when it is not cut short, delivers its first k
\* events and then either rejects or, having delivered all of them,
\* completes.  yields is what the generator yields meanwhile.
\* After a rejection with attempts left the generator sleeps and, the sleep
\* over, issues the next call (claude.ts:92-101).
\* thrown is what the call rejects with.
GenAttemptRejecting(g, script, thrown) ==
  LET caught == GenCatch(g, toError(thrown).text)
  IN { [yields |-> GenYields(SubSeq(script, 1, k)),
        gen |-> IF caught.st = "sleeping" THEN GenOpen(caught) ELSE caught] :
          k \in 0..Len(script) }
     \cup { [yields |-> GenYields(script), gen |-> [g EXCEPT !.st = "returned"]] }

\* the attempt-th call of a request rejects with its own Error object
GenAttempt(g, script) == GenAttemptRejecting(g, script, Err(UpstreamError(g.attempt)))

(***************************************************************************)
(* createChatCompletion (claude.ts:134-181) as transitions of the pending  *)
(* call c, and a direct caller of both functions of the module: it         *)
(* iterates streamChatCompletion to its end and awaits                     *)
(* createChatCompletion.                                                   *)
(***************************************************************************)
TextBlock(text) == [type |-> "text", text |-> text]

ToolUseBlock == [type |-> "tool_use", text |-> <<>>]

\* the content a messages.create() call of the attempt may resolve with
Responses(attempt) ==
  { <<>>, <<ToolUseBlock>>, <<TextBlock(UpstreamText(attempt))>>,
    <<ToolUseBlock, TextBlock(UpstreamText(attempt)), TextBlock(<<"z">>)>> }

NoTextError == "No text content in response"

NewCompletion ==
  [st |-> "new", attempt |-> 0, lastError |-> "", trace |-> <<>>, result |-> <<>>]

\* loop head and client.messages.create(...): claude.ts:147-156
CompletionOpen(c) ==
  [c EXCEPT !.st = "pending", !.attempt = @ + 1, !.trace = Append(@, CallEntry)]

\* a search that takes the last text block of the content
FindTextLast(content) ==
  LET texts == SelectSeq(content, LAMBDA b : b.type = "text")
  IN IF texts = <<>> THEN <<>> ELSE <<texts[Len(texts)]>>

\* response.content.find((c) => c.type === "text"): claude.ts:158
FindText(content) ==
  LET texts == SelectSeq(content, LAMBDA b : b.type = "text")
  IN IF texts = <<>> THEN <<>> ELSE <<Head(texts)>>

\* a catch block that keeps the error of the first failed attempt
CompletionCatchKeepFirst(c, e) ==
  LET kept == IF c.lastError = "" THEN e ELSE c.lastError
  IN IF c.attempt < MAX_RETRIES
     THEN [c EXCEPT !.st = "sleeping", !.lastError = kept,
                    !.trace = Append(@, SleepEntry(RETRY_DELAY_MS * c.attempt))]
     ELSE [c EXCEPT !.st = "threw", !.lastError = kept]

\* catch block and, past the loop, the throw: claude.ts:165-180
CompletionCatch(c, e) ==
  IF c.attempt < MAX_RETRIES
  THEN [c EXCEPT !.st = "sleeping", !.lastError = e,
                 !.trace = Append(@, SleepEntry(RETRY_DELAY_MS * c.attempt))]
  ELSE [c EXCEPT !.st = "threw", !.lastError = e]

\* One messages.create() call from its start to its end, claude.ts:148-176:
\* it rejects, or resolves with a content of which the first text block is
\* returned, a content without one being thrown into the catch block.  After
\* a catch with attempts left the function sleeps and issues the next call.
CompletionAttempt(c) ==
  LET retry(x) == IF x.st = "sleeping" THEN CompletionOpen(x) ELSE x
  IN { retry(CompletionCatch(c, UpstreamError(c.attempt))) } \cup
     { IF FindText(content) = <<>>
       THEN retry(CompletionCatch(c, NoTextError))
       ELSE [c EXCEPT !.st = "returned", !.result = FindText(content)[1].text] :
         content \in Responses(c.attempt) }

\* script: the events the upstream delivers on each streaming call of the caller
NoCaller ==
  [gen |-> NewGen, script |-> <<>>, chunks |-> <<>>, completion |-> NewCompletion,
   events |-> <<>>]

\* the first next() of the generator: getClient() and the first call
IterateStart ==
  /\ caller.gen.st = "new"
  /\ IF getClientThrows
     THEN /\ caller' = [caller EXCEPT !.gen.st = "threw", !.gen.lastError = ConfigError]
          /\ UNCHANGED anthropicClient
     ELSE /\ caller' = [caller EXCEPT !.gen = GenOpen(@)]
          /\ anthropicClient' = TRUE
  /\ UNCHANGED <<now, storeVars, hOp, hCount, storageCalls, aside, req>>

\* for await (const chunk of streamChatCompletion(...)) over one attempt
IterateAttempt ==
  /\ caller.gen.st = "open"
  /\ \E a \in GenAttempt(caller.gen, caller.script) :
       caller' = [caller EXCEPT !.gen = a.gen, !.chunks = @ \o a.yields]
  /\ UNCHANGED <<now, storeVars, hOp, hCount, storageCalls, relayVars>>

\* createChatCompletion is called: getClient() and the first call
CompletionStart ==
  /\ caller.completion.st = "new"
  /\ IF getClientThrows
     THEN /\ caller' = [caller EXCEPT !.completion.st = "threw",
                                      !.completion.lastError = ConfigError]
          /\ UNCHANGED anthropicClient
     ELSE /\ caller' = [caller EXCEPT !.completion = CompletionOpen(@)]
          /\ anthropicClient' = TRUE
  /\ UNCHANGED <<now, storeVars, hOp, hCount, storageCalls, aside, req>>

\* the pending messages.create() call settles
CompletionSettled ==
  /\ caller.completion.st = "pending"
  /\ \E c \in CompletionAttempt(caller.completion) :
       caller' = [caller EXCEPT !.completion = c]
  /\ UNCHANGED <<now, storeVars, hOp, hCount, storageCalls, relayVars>>

(***************************************************************************)
(* POST /api/chat (layout.tsx:200-307).  Each action runs the handler from *)
(* one await to the next.                                                  *)
(***************************************************************************)
RECURSIVE TrimStart(_)
TrimStart(s) == IF s # <<>> /\ Head(s) = " " THEN TrimStart(Tail(s)) ELSE s

RECURSIVE TrimEnd(_)
TrimEnd(s) ==
  IF s # <<>> /\ s[Len(s)] = " " THEN TrimEnd(SubSeq(s, 1, Len(s) - 1)) ELSE s

trim(s) == TrimEnd(TrimStart(s))

(***************************************************************************)
(* Image validation (part_006:8-145).  An element of the images array is   *)
(* shaped when it is an object with a string data, a string mimeType and a *)
(* number size; data is a sequence of characters.                          *)
(***************************************************************************)
SUPPORTED_IMAGE_TYPES == {"image/png", "image/jpeg", "image/webp", "image/gif"}

Base64Alphabet ==
  { "A", "B", "C", "D", "E", "F", "G", "H", "I", "J", "K", "L", "M",
    "N", "O", "P", "Q", "R", "S", "T", "U", "V", "W", "X", "Y", "Z",
    "a", "b", "c", "d", "e", "f", "g", "h", "i", "j", "k", "l", "m",
    "n", "o", "p", "q", "r", "s", "t", "u", "v", "w", "x", "y", "z",
    "0", "1", "2", "3", "4", "5", "6", "7", "8", "9", "+", "/" }

isValidImageType(mimeType) == mimeType \in SUPPORTED_IMAGE_TYPES

isValidImageSize(size) == size > 0 /\ size <= MAX_IMAGE_SIZE

isValidImageCount(count) == count > 0 /\ count <= MAX_IMAGES_PER_MESSAGE

\* /^[A-Za-z0-9+/]+={0,2}$/.test(data): part_006:69-73
isValidBase64Image(data) ==
  \E k \in 1..Len(data) :
    /\ Len(data) - k <= 2
    /\ \A i \in 1..k : data[i] \in Base64Alphabet
    /\ \A i \in (k + 1)..Len(data) : data[i] = "="

ImageValid == [valid |-> TRUE, error |-> ""]

ImageInvalid(error) == [valid |-> FALSE, error |-> error]

\* part_006:78-114
validateImage(data, mimeType, size) ==
  IF ~isValidImageType(mimeType) THEN ImageInvalid("INVALID_TYPE")
  ELSE IF ~isValidImageSize(size) THEN ImageInvalid("FILE_TOO_LARGE")
  ELSE IF ~isValidBase64Image(data) THEN ImageInvalid("INVALID_DATA")
  ELSE ImageValid

RECURSIVE ValidateEach(_)
\* the loop of validateImages: the result of the first image that fails
ValidateEach(images) ==
  IF images = <<>> THEN ImageValid
  ELSE LET result == validateImage(Head(images).data, Head(images).mimeType,
                                   Head(images).size)
       IN IF ~result.valid THEN result ELSE ValidateEach(Tail(images))

\* part_006:119-145
validateImages(images) ==
  IF ~isValidImageCount(Len(images)) THEN ImageInvalid("TOO_MANY_IMAGES")
  ELSE ValidateEach(images)

Image(shaped, data, mimeType, size) ==
  [shaped |-> shaped, data |-> data, mimeType |-> mimeType, size |-> size]

PngImage == Image(TRUE, <<"Q", "Q", "=", "=">>, "image/png", 1)

\* the images field of a body: absent, not an array, or an array of elements
NoImages == [present |-> FALSE, isArray |-> FALSE, items |-> <<>>]

ImageArray(items) == [present |-> TRUE, isArray |-> TRUE, items |-> items]

\* images fields validateRequest or validateImages turns down
BadImages ==
  { [present |-> TRUE, isArray |-> FALSE, items |-> <<>>],
    ImageArray(<<PngImage, Image(FALSE, <<>>, "", 0)>>),
    ImageArray([i \in 1..(MAX_IMAGES_PER_MESSAGE + 1) |-> PngImage]),
    ImageArray(<<Image(TRUE, <<"Q">>, "image/bmp", 1)>>),
    ImageArray(<<Image(TRUE, <<"Q">>, "image/png", MAX_IMAGE_SIZE + 1)>>),
    ImageArray(<<Image(TRUE, <<"Q">>, "image/png", 0)>>),
    ImageArray(<<PngImage, Image(TRUE, <<"Q", "=", "=", "=">>, "image/gif", 1)>>),
    ImageArray(<<Image(TRUE, <<"Q", " ">>, "image/jpeg", MAX_IMAGE_SIZE)>>) }

\* a request body: json is FALSE when request.json() rejects; sessionId 0 is ""
Body(json, sidIsString, sessionId, msgIsString, message) ==
  [json |-> json, sidIsString |-> sidIsString, sessionId |-> sessionId,
   msgIsString |-> msgIsString, message |-> message, images |-> NoImages]

NoBody == Body(FALSE, FALSE, "", FALSE, <<>>)

\* the bodies the n-th request may carry: the request that opens a session
\* comes with an image, the one that goes on with a session comes without
Bodies(n) ==
  {NoBody} \cup
  { [Body(TRUE, TRUE, "", TRUE, <<" ", "m" \o ToString(n), " ">>)
       EXCEPT !.images = ImageArray(<<PngImage>>)] } \cup
  { Body(TRUE, TRUE, sid, TRUE, <<" ", "m" \o ToString(n), " ">>) :
      sid \in ClientSids } \cup
  { Body(TRUE, TRUE, "s1", TRUE, <<" ">>),
    Body(TRUE, FALSE, "", TRUE, <<"m" \o ToString(n)>>),
    Body(TRUE, TRUE, "s1", FALSE, <<>>) } \cup
  { [Body(TRUE, TRUE, "s1", TRUE, <<"m" \o ToString(n)>>) EXCEPT !.images = im] :
      im \in BadImages }

\* a validateRequest that does not look at the images
validateRequestMessageOnly(b) ==
  /\ b.sidIsString
  /\ b.msgIsString
  /\ Len(trim(b.message)) # 0

\* validateRequest: layout.tsx:160-188
validateRequest(b) ==
  /\ b.sidIsString
  /\ b.msgIsString
  /\ Len(trim(b.message)) # 0
  /\ b.images.present
       => /\ b.images.isArray
          /\ \A i \in 1..Len(b.images.items) : b.images.items[i].shaped

ContentEvent(text) == [type |-> "content", text |-> text, error |-> ""]

DoneEvent == [type |-> "done", text |-> <<>>, error |-> ""]

ErrorEvent(e) == [type |-> "error", text |-> <<>>, error |-> e]

DbError == "db error"

ChatMessageOf(m) == [role |-> m.role, content |-> m.content]

ChatMessagesOf(msgs) == [i \in 1..Len(msgs) |-> ChatMessageOf(msgs[i])]

(***************************************************************************)
(* A direct caller that does what ReadableStream.start does                *)
(* (layout.tsx:270-288) with an upstream and a storage that reject with    *)
(* any of Throwables: caller.events is what it enqueues at the end.        *)
(***************************************************************************)
\* for await (const text of streamChatCompletion(...)) over one attempt
StartIteratesAttempt ==
  /\ caller.gen.st = "open"
  /\ \E thrown \in Throwables :
     \E a \in GenAttemptRejecting(caller.gen, caller.script, thrown) :
       caller' = [caller EXCEPT !.gen = a.gen, !.chunks = @ \o a.yields]
  /\ UNCHANGED <<now, storeVars, hOp, hCount, storageCalls, relayVars>>

\* the generator threw: the catch enqueues the error event (layout.tsx:282-287)
StartCatchesUpstream ==
  /\ caller.gen.st = "threw"
  /\ caller.events = <<>>
  /\ caller' = [caller EXCEPT
                  !.events = <<ErrorEvent(errorMessage(Err(caller.gen.lastError)))>>]
  /\ UNCHANGED <<now, storeVars, hOp, hCount, storageCalls, relayVars>>

\* the generator returned: storage.addMessage resolves and done is enqueued,
\* or it rejects and the catch enqueues the error event (layout.tsx:277-287)
StartSavesReply ==
  /\ caller.gen.st = "returned"
  /\ caller.events = <<>>
  /\ \/ caller' = [caller EXCEPT !.events = <<DoneEvent>>]
     \/ \E thrown \in Throwables :
          caller' = [caller EXCEPT !.events = <<ErrorEvent(errorMessage(thrown))>>]
  /\ UNCHANGED <<now, storeVars, hOp, hCount, storageCalls, relayVars>>

\* The handler of a request slot.  status is the HTTP status once the Response
\* is returned (0 before), events and closed are the ReadableStream's output.
\* message is the message of the error body the outer catch builds ("" when
\* it has not run).
\* History variables: caught (what the outer catch caught), n (the request's number), appends (the records the
\* addMessage calls that returned left in the store), userObj (the stored
\* session that took the user message), prior (what had been appended to that
\* session before it).
IdleReq ==
  [pc |-> "idle", n |-> 0, body |-> NoBody, sessionId |-> "", userMessage |-> <<>>,
   storage |-> 0, session |-> Null, chatMessages |-> <<>>,
   assistantResponse |-> <<>>, status |-> 0, code |-> "", headerSid |-> "",
   events |-> <<>>, closed |-> FALSE, gen |-> NewGen,
   appends |-> <<>>, userObj |-> 0, prior |-> <<>>,
   message |-> "", caught |-> <<>>]

Terminal == {"completed", "errored", "http400", "http500"}

Respond(q, pc, status, code) ==
  [q EXCEPT !.pc = pc, !.status = status, !.code = code]

InternalErrorText == "Internal server error"

\* the message of the SyntaxError request.json() rejects with
JsonSyntaxError == "Unexpected token in JSON"

\* a catch that puts the message of what it caught into the response
CatchResponseLeaking(e) ==
  [status |-> 500, code |-> "INTERNAL_ERROR", message |-> errorMessage(e)]

\* the Response the outer catch returns: layout.tsx:299-306 and, the same
\* lines in the history route, route.ts:65-72; e is logged, nothing more
CatchResponse(e) ==
  [status |-> 500, code |-> "INTERNAL_ERROR", message |-> InternalErrorText]

\* layout.tsx:299-306
InternalError(q, e) ==
  LET response == CatchResponse(e)
  IN [Respond(q, "http500", response.status, response.code)
        EXCEPT !.message = response.message, !.caught = <<e>>]

\* a catch that enqueues the error event and leaves the stream open
StreamErrorNoClose(q, e) ==
  [q EXCEPT !.pc = "errored", !.events = Append(@, ErrorEvent(errorMessage(e)))]

\* catch of ReadableStream.start: layout.tsx:282-287
StreamError(q, e) ==
  [q EXCEPT !.pc = "errored", !.events = Append(@, ErrorEvent(errorMessage(e))),
            !.closed = TRUE]

\* layout.tsx:204-236, up to `await getStorage()`
Receive(r) ==
  /\ req[r].pc = "idle"
  /\ \A r2 \in 1..(r - 1) : req[r2].pc # "idle"
  /\ \E b \in Bodies(r) :
       LET q == [IdleReq EXCEPT !.n = r, !.body = b]
       IN req' = [req EXCEPT ![r] =
            IF ~b.json THEN InternalError(q, Err(JsonSyntaxError))
            ELSE IF ~validateRequest(b)
                 THEN Respond(q, "http400", 400, "VALIDATION_ERROR")
            ELSE IF Len(b.images.items) > 0 /\ ~validateImages(b.images.items).valid
                 THEN Respond(q, "http400", 400, "VALIDATION_ERROR")
                 ELSE [q EXCEPT !.pc = "getStorage",
                                !.sessionId = IF b.sessionId # "" THEN b.sessionId
                                              ELSE generateSessionId(r),
                                !.userMessage = trim(b.message)]]
  /\ UNCHANGED <<now, storeVars, harnessVars, aside, anthropicClient>>

\* getStorage(): logger.ts:423-426, the memoized adapter
GetStorageMemo(r) ==
  /\ req[r].pc = "getStorage"
  /\ storageInstance # 0
  /\ req' = [req EXCEPT ![r].pc = "getSession", ![r].storage = storageInstance]
  /\ UNCHANGED <<now, storeVars, harnessVars, aside, anthropicClient>>

\* getStorage(): logger.ts:428-441, the import and the ping are started
GetStorageProbe(r) ==
  /\ req[r].pc = "getStorage"
  /\ storageInstance = 0
  /\ req' = [req EXCEPT ![r].pc = "probing"]
  /\ UNCHANGED <<now, storeVars, harnessVars, aside, anthropicClient>>

\* how the try block of getStorage ends: the ping answers before the
\* timeout, the import or the ping rejects, or the timeout rejects first
ProbeOutcomes == {"pong", "importFailed", "pingFailed", "timeout"}

\* a getStorage that binds the database whatever the probe did
adapterForDurableAlways(outcome) == "mongo"

\* the class getStorage constructs: logger.ts:441-450
adapterFor(outcome) == IF outcome = "pong" THEN "mongo" ELSE "memory"

\* storageInstance = new ...(): logger.ts:444 and 449
Bind(kind) ==
  /\ adapterKind' = Append(adapterKind, kind)
  /\ store' = [store EXCEPT !.mem = Append(@, [s \in AllSids |-> 0])]
  /\ storageInstance' = Len(adapterKind) + 1

\* getStorage(): logger.ts:441-452, the race of ping and timeout is settled
ProbeSettled(r) ==
  /\ req[r].pc = "probing"
  /\ \E outcome \in ProbeOutcomes : Bind(adapterFor(outcome))
  /\ req' = [req EXCEPT ![r].pc = "getSession",
                        ![r].storage = Len(adapterKind) + 1]
  /\ UNCHANGED <<now, harnessVars, aside, anthropicClient>>

\* layout.tsx:239-247
ResolveSession(r) ==
  /\ req[r].pc = "getSession"
  /\ \E t \in ClockReadings :
     \E o \in getSession(store, req[r].storage, req[r].sessionId, t) :
       /\ now' = t
       /\ store' = o.st
       /\ req' = [req EXCEPT ![r] =
            IF o.threw THEN InternalError(@, Err(DbError))
            ELSE IF o.ret.kind = "null" THEN [@ EXCEPT !.pc = "createSession"]
            ELSE IF isSessionExpired(SessionExpiresAt(o.st, o.ret), t)
                 THEN [@ EXCEPT !.pc = "deleteSession", !.session = o.ret]
                 ELSE [@ EXCEPT !.pc = "addUser", !.session = o.ret]]
  /\ UNCHANGED <<adapterKind, storageInstance, harnessVars, aside, anthropicClient>>

\* layout.tsx:243-244
ExpireSession(r) ==
  /\ req[r].pc = "deleteSession"
  /\ \E o \in deleteSession(store, req[r].storage, req[r].sessionId) :
       /\ store' = o.st
       /\ req' = [req EXCEPT ![r] =
            IF o.threw THEN InternalError(@, Err(DbError))
            ELSE [@ EXCEPT !.pc = "createSession", !.session = Null]]
  /\ UNCHANGED <<now, adapterKind, storageInstance, harnessVars, aside, anthropicClient>>

\* layout.tsx:247-250
CreateSession(r) ==
  /\ req[r].pc = "createSession"
  /\ \E t \in ClockReadings :
     \E o \in createSession(store, req[r].storage, req[r].sessionId,
                            getSessionExpiresAt(t)) :
       /\ now' = t
       /\ store' = o.st
       /\ req' = [req EXCEPT ![r] =
            IF o.threw THEN InternalError(@, Err(DbError))
            ELSE [@ EXCEPT !.pc = "addUser", !.session = o.ret]]
  /\ UNCHANGED <<adapterKind, storageInstance, harnessVars, aside, anthropicClient>>

\* a handler that opens the stream and calls the upstream with the user
\* message still unsaved
SaveUserMessageUnsaved(r) ==
  /\ req[r].pc = "addUser"
  /\ \E t \in ClockReadings :
       LET q == req[r]
           s == [q EXCEPT
                   !.chatMessages =
                      ChatMessagesOf(SessionMessages(store, q.session))
                        \o <<[role |-> "user", content |-> q.userMessage]>>,
                   !.status = 200, !.headerSid = q.sessionId]
       IN /\ now' = t
          /\ UNCHANGED store
          /\ IF getClientThrows
             THEN req' = [req EXCEPT ![r] = StreamError(s, Err(ConfigError))]
                  /\ UNCHANGED anthropicClient
             ELSE req' = [req EXCEPT ![r] =
                            [s EXCEPT !.pc = "streaming", !.gen = GenOpen(@)]]
                  /\ anthropicClient' = TRUE
  /\ UNCHANGED <<adapterKind, storageInstance, harnessVars, aside>>

\* layout.tsx:253-298: the user message is saved, chatMessages is built, the
\* Response is returned, and ReadableStream.start runs streamChatCompletion up
\* to its first await, which is past getClient() and the first upstream call
SaveUserMessage(r) ==
  /\ req[r].pc = "addUser"
  /\ \E t \in ClockReadings :
     \E o \in addMessage(store, req[r].storage, req[r].sessionId,
                         [role |-> "user", content |-> req[r].userMessage], t) :
       LET q == req[r]
           stored == Stored(o.st, q.storage, q.sessionId)
           s == [q EXCEPT
                   !.chatMessages =
                      ChatMessagesOf(SessionMessages(o.st, q.session))
                        \o <<[role |-> "user", content |-> q.userMessage]>>,
                   !.status = 200, !.headerSid = q.sessionId,
                   !.appends = Append(@, LastStored(o.st, q.storage, q.sessionId)),
                   !.userObj = stored.id,
                   !.prior = ChatMessagesOf(SubSeq(stored.appended, 1,
                                                   Len(stored.appended) - 1))]
       IN /\ now' = t
          /\ store' = o.st
          /\ IF o.threw
             THEN req' = [req EXCEPT ![r] = InternalError(q, Err(DbError))]
                  /\ UNCHANGED anthropicClient
             ELSE IF getClientThrows
                  THEN req' = [req EXCEPT ![r] = StreamError(s, Err(ConfigError))]
                       /\ UNCHANGED anthropicClient
                  ELSE req' = [req EXCEPT ![r] =
                                 [s EXCEPT !.pc = "streaming", !.gen = GenOpen(@)]]
                       /\ anthropicClient' = TRUE
  /\ UNCHANGED <<adapterKind, storageInstance, harnessVars, aside>>

RECURSIVE Concat(_)
\* assistantResponse += text, for each text in turn: layout.tsx:273
Concat(texts) == IF texts = <<>> THEN <<>> ELSE Head(texts) \o Concat(Tail(texts))

\* a handler that puts each new text in front of the accumulated reply
UpstreamAttemptPrepend(r) ==
  /\ req[r].pc = "streaming"
  /\ req[r].gen.st = "open"
  /\ \E a \in GenAttempt(req[r].gen, UpstreamScript(req[r].gen.attempt)) :
       LET q == [req[r] EXCEPT
                   !.gen = a.gen,
                   !.assistantResponse = Concat(a.yields) \o @,
                   !.events = @ \o [i \in 1..Len(a.yields) |-> ContentEvent(a.yields[i])]]
       IN req' = [req EXCEPT ![r] =
            IF a.gen.st = "threw" THEN StreamError(q, Err(a.gen.lastError))
            ELSE IF a.gen.st = "returned" THEN [q EXCEPT !.pc = "addAssistant"]
            ELSE q]
  /\ UNCHANGED <<now, storeVars, harnessVars, aside, anthropicClient>>

\* The upstream call of the current attempt runs to its end.  Each text the
\* generator yields is accumulated and enqueued (layout.tsx:272-275); when the
\* generator returns the handler goes on to save the reply (layout.tsx:277),
\* when it throws the catch of start runs (layout.tsx:282-287).
UpstreamAttempt(r) ==
  /\ req[r].pc = "streaming"
  /\ req[r].gen.st = "open"
  /\ \E a \in GenAttempt(req[r].gen, UpstreamScript(req[r].gen.attempt)) :
       LET q == [req[r] EXCEPT
                   !.gen = a.gen,
                   !.assistantResponse = @ \o Concat(a.yields),
                   !.events = @ \o [i \in 1..Len(a.yields) |-> ContentEvent(a.yields[i])]]
       IN req' = [req EXCEPT ![r] =
            IF a.gen.st = "threw" THEN StreamError(q, Err(a.gen.lastError))
            ELSE IF a.gen.st = "returned" THEN [q EXCEPT !.pc = "addAssistant"]
            ELSE q]
  /\ UNCHANGED <<now, storeVars, harnessVars, aside, anthropicClient>>

\* a handler that reports done whether or not the reply was stored
SaveAssistantMessageSwallow(r) ==
  /\ req[r].pc = "addAssistant"
  /\ \E t \in ClockReadings :
     \E o \in addMessage(store, req[r].storage, req[r].sessionId,
                         [role |-> "assistant", content |-> req[r].assistantResponse],
                         t) :
       /\ now' = t
       /\ store' = o.st
       /\ req' = [req EXCEPT ![r] =
            [@ EXCEPT !.pc = "completed",
                      !.appends = IF o.threw THEN @
                                  ELSE Append(@, LastStored(o.st, req[r].storage,
                                                            req[r].sessionId)),
                      !.events = Append(@, DoneEvent), !.closed = TRUE]]
  /\ UNCHANGED <<adapterKind, storageInstance, harnessVars, aside, anthropicClient>>

\* layout.tsx:278-287
SaveAssistantMessage(r) ==
  /\ req[r].pc = "addAssistant"
  /\ \E t \in ClockReadings :
     \E o \in addMessage(store, req[r].storage, req[r].sessionId,
                         [role |-> "assistant", content |-> req[r].assistantResponse],
                         t) :
       /\ now' = t
       /\ store' = o.st
       /\ req' = [req EXCEPT ![r] =
            IF o.threw THEN StreamError(@, Err(DbError))
            ELSE [@ EXCEPT !.pc = "completed",
                           !.appends = Append(@, LastStored(o.st, req[r].storage,
                                                            req[r].sessionId)),
                           !.events = Append(@, DoneEvent), !.closed = TRUE]]
  /\ UNCHANGED <<adapterKind, storageInstance, harnessVars, aside, anthropicClient>>

(***************************************************************************)
(* GET /api/chat/history (history/route.ts:13-73) for an identifier, once  *)
(* an adapter is bound, taken as one step; its effect on the store is all  *)
(* the other handlers see.                                                 *)
(***************************************************************************)
\* message is the message of the error body the catch builds ("" otherwise)
HistoryResponse(status, code, messages, st) ==
  [status |-> status, code |-> code, messages |-> messages, st |-> st,
   message |-> ""]

\* route.ts:65-72
HistoryInternalError(e, st) ==
  LET response == CatchResponse(e)
  IN [HistoryResponse(response.status, response.code, <<>>, st)
        EXCEPT !.message = response.message]

\* a handler that answers a missing session with an empty history
GETEmptyOnMiss(S, a, sid, t) ==
  IF sid = "" THEN {HistoryResponse(400, "VALIDATION_ERROR", <<>>, S)}
  ELSE UNION {
    IF o.threw THEN {HistoryInternalError(Err(DbError), o.st)}
    ELSE IF o.ret.kind = "null"
         THEN {HistoryResponse(200, "", <<>>, o.st)}
    ELSE IF isSessionExpired(SessionExpiresAt(o.st, o.ret), t)
         THEN { IF d.threw THEN HistoryInternalError(Err(DbError), d.st)
                ELSE HistoryResponse(410, "SESSION_EXPIRED", <<>>, d.st) :
                  d \in deleteSession(o.st, a, sid) }
    ELSE {HistoryResponse(200, "", ChatMessagesOf(SessionMessages(o.st, o.ret)), o.st)} :
      o \in getSession(S, a, sid, t) }

\* the responses of the handler and the store each leaves: route.ts:13-73
GET(S, a, sid, t) ==
  IF sid = "" THEN {HistoryResponse(400, "VALIDATION_ERROR", <<>>, S)}
  ELSE UNION {
    IF o.threw THEN {HistoryInternalError(Err(DbError), o.st)}
    ELSE IF o.ret.kind = "null"
         THEN {HistoryResponse(404, "NOT_FOUND", <<>>, o.st)}
    ELSE IF isSessionExpired(SessionExpiresAt(o.st, o.ret), t)
         THEN { IF d.threw THEN HistoryInternalError(Err(DbError), d.st)
                ELSE HistoryResponse(410, "SESSION_EXPIRED", <<>>, d.st) :
                  d \in deleteSession(o.st, a, sid) }
    ELSE {HistoryResponse(200, "", ChatMessagesOf(SessionMessages(o.st, o.ret)), o.st)} :
      o \in getSession(S, a, sid, t) }

\* the store after the handler: getSession, and deleteSession when the session
\* read is expired (route.ts:30-48); a rejected query changes nothing
HistoryEffect(S, a, sid, t) == { o.st : o \in GET(S, a, sid, t) }

HistoryFetch ==
  /\ storageInstance # 0
  /\ \E sid \in ClientSids, t \in ClockReadings :
       /\ now' = t
       /\ store' \in HistoryEffect(store, storageInstance, sid, t)
  /\ UNCHANGED <<adapterKind, storageInstance, harnessVars, relayVars>>

(***************************************************************************)
(* A direct caller of one StorageAdapter, as a unit test drives it.  hOp   *)
(* describes the last call: its arguments, the clock, what was stored      *)
(* under the identifier before it, and what it returned.                   *)
(***************************************************************************)
\* held is a Session value the caller got from an earlier call and still
\* holds, with the messages it had when it was returned
NoHeld == [session |-> Null, messages |-> <<>>]

NoOp == [op |-> "none", sid |-> "", t |-> 0, pre |-> NoRec, threw |-> FALSE,
         session |-> Null, messages |-> <<>>, status |-> 0, code |-> "",
         count |-> 0, failed |-> FALSE, deleted |-> FALSE,
         input |-> <<>>, output |-> <<>>, held |-> NoHeld]

HarnessMessages ==
  { [role |-> ro, content |-> <<c>>] : ro \in {"user", "assistant"}, c \in {"x"} }

Called(op, sid, t, out, session, messages) ==
  /\ hCount < MaxOps
  /\ hCount' = hCount + 1
  /\ now' = t
  /\ store' = out.st
  /\ hOp' = [op |-> op, sid |-> sid, t |-> t,
             pre |-> Stored(store, storageInstance, sid),
             threw |-> out.threw, session |-> session, messages |-> messages,
             status |-> 0, code |-> "", count |-> 0, failed |-> out.threw,
             deleted |-> FALSE, input |-> <<>>, output |-> <<>>,
             held |-> hOp.held]
  /\ UNCHANGED <<adapterKind, storageInstance, caller, storageCalls, relayVars>>

CallCreateSession ==
  \E sid \in ClientSids, t \in ClockReadings, exp \in Instants :
    \E out \in createSession(store, storageInstance, sid, exp) :
      Called("createSession", sid, t, out, out.ret, <<>>)

CallGetSession ==
  \E sid \in ClientSids, t \in ClockReadings :
    \E out \in getSession(store, storageInstance, sid, t) :
      Called("getSession", sid, t, out, out.ret, SessionMessages(out.st, out.ret))

CallDeleteSession ==
  \E sid \in ClientSids, t \in ClockReadings :
    \E out \in deleteSession(store, storageInstance, sid) :
      Called("deleteSession", sid, t, out, Null, <<>>)

CallAddMessage ==
  \E sid \in ClientSids, t \in ClockReadings, msg \in HarnessMessages :
    \E out \in addMessage(store, storageInstance, sid, msg, t) :
      Called("addMessage", sid, t, out, Null, <<>>)

CallGetMessages ==
  \E sid \in ClientSids, t \in ClockReadings :
    \E out \in getMessages(store, storageInstance, sid, t) :
      Called("getMessages", sid, t, out, Null, IF out.threw THEN <<>> ELSE out.ret)

\* a client of the history route: GET /api/chat/history?sessionId=sid, or
\* without the parameter; hOp holds its response, hOp.output the message of
\* the error body
CallHistory ==
  \E sid \in ClientSids \cup {""}, t \in ClockReadings :
    \E out \in GET(store, storageInstance, sid, t) :
      /\ hCount < MaxOps
      /\ hCount' = hCount + 1
      /\ now' = t
      /\ store' = out.st
      /\ hOp' = [op |-> "history", sid |-> sid, t |-> t,
                 pre |-> IF sid = "" THEN NoRec
                         ELSE Stored(store, storageInstance, sid),
                 threw |-> out.status = 500, session |-> Null,
                 messages |-> out.messages,
                 status |-> out.status, code |-> out.code, count |-> 0,
                 failed |-> out.status = 500, deleted |-> FALSE,
                 input |-> <<>>, output |-> out.message, held |-> hOp.held]
      /\ UNCHANGED <<adapterKind, storageInstance, caller, storageCalls, relayVars>>

\* a periodic job calls the sweep; hOp.count is what it returned
CallDeleteExpiredSessions ==
  \E t \in ClockReadings :
    \E out \in deleteExpiredSessions(store, storageInstance, t) :
      /\ hCount < MaxOps
      /\ hCount' = hCount + 1
      /\ now' = t
      /\ store' = out.st
      /\ hOp' = [NoOp EXCEPT !.op = "deleteExpiredSessions", !.t = t,
                             !.threw = out.threw, !.failed = out.threw,
                             !.count = IF out.threw THEN 0 ELSE out.ret]
      /\ UNCHANGED <<adapterKind, storageInstance, caller, storageCalls, relayVars>>

\* the identifiers of two requests in flight: one the client chose, one the
\* server drew
InFlightSids == {"s1", generateSessionId(1)}

\* these requests at the step where they create their session
RequestCreatesSession ==
  \E sid \in InFlightSids, t \in ClockReadings, exp \in Instants :
    \E out \in createSession(store, storageInstance, sid, exp) :
      Called("createSession", sid, t, out, out.ret, <<>>)

\* and at the steps where they save a message
RequestAddsMessage ==
  \E sid \in InFlightSids, t \in ClockReadings, msg \in HarnessMessages :
    \E out \in addMessage(store, storageInstance, sid, msg, t) :
      Called("addMessage", sid, t, out, Null, <<>>)

(***************************************************************************)
(* The session module (src/DEPLOYMENT.md:386-495), which queries the       *)
(* database itself, and the same resolution as POST /api/chat does it      *)
(* through the bound adapter (layout.tsx:238-250).  A call is taken as one *)
(* step and reads the clock once.                                          *)
(***************************************************************************)
\* a resolution that replaces the session it finds
getOrCreateSessionAlwaysNew(S, sessionId, t) ==
  LET id == IF sessionId # "" THEN sessionId ELSE generateSessionId(1)
      create(S1) == MongoDBStorage_createSession(S1, id, getSessionExpiresAt(t))
  IN UNION {
       IF f.threw THEN {f}
       ELSE IF f.ret.kind = "null" THEN create(f.st)
       ELSE UNION { IF d.threw THEN {d} ELSE create(d.st) :
                    d \in MongoDBStorage_deleteSession(f.st, id) } :
       f \in MongoDBStorage_getSession(S, id) }

\* getOrCreateSession(sessionId?): DEPLOYMENT.md:395-421; "" is no argument
getOrCreateSession(S, sessionId, t) ==
  LET id == IF sessionId # "" THEN sessionId ELSE generateSessionId(1)
      create(S1) == MongoDBStorage_createSession(S1, id, getSessionExpiresAt(t))
  IN UNION {
       IF f.threw THEN {f}
       ELSE IF f.ret.kind = "null" THEN create(f.st)
       ELSE IF isSessionExpired(f.ret.expiresAt, t)
            THEN UNION { IF d.threw THEN {d} ELSE create(d.st) :
                         d \in MongoDBStorage_deleteSession(f.st, id) }
            ELSE {f} :
       f \in MongoDBStorage_getSession(S, id) }

\* a resolution that hands out the session it finds, expired or not
resolveSessionKeepExpired(S, a, sid, t) ==
  LET create(S1) == createSession(S1, a, sid, getSessionExpiresAt(t))
  IN UNION {
       IF f.threw THEN {f}
       ELSE IF f.ret.kind = "null" THEN create(f.st)
       ELSE {f} :
       f \in getSession(S, a, sid, t) }

\* POST, "Get or create session": layout.tsx:238-250
resolveSession(S, a, sid, t) ==
  LET create(S1) == createSession(S1, a, sid, getSessionExpiresAt(t))
  IN UNION {
       IF f.threw THEN {f}
       ELSE IF f.ret.kind = "null" THEN create(f.st)
       ELSE IF isSessionExpired(SessionExpiresAt(f.st, f.ret), t)
            THEN UNION { IF d.threw THEN {d} ELSE create(d.st) :
                         d \in deleteSession(f.st, a, sid) }
            ELSE {f} :
       f \in getSession(S, a, sid, t) }

\* prisma.session.update({ where: { sessionId }, data: { expiresAt } }): it
\* rejects when no record has the sessionId
SessionUpdate(S, sid, exp) ==
  {DbFail(S)} \cup
  IF S.db[sid].id = 0 THEN {}
  ELSE {Outcome(FALSE, Null, [S EXCEPT !.db[sid].expiresAt = exp])}

\* what a function returns whose body is try { query; return value } catch
\* { log; return fallback }; failed tells that the query rejected
Settled(o, value, fallback) ==
  [threw |-> FALSE, failed |-> o.threw, st |-> o.st,
   ret |-> IF o.threw THEN fallback ELSE value]

\* refreshSession(sessionId): DEPLOYMENT.md:426-436
refreshSession(S, sessionId, t) ==
  { Settled(o, Null, Null) : o \in SessionUpdate(S, sessionId, getSessionExpiresAt(t)) }

\* a deleteSession without the try and catch
session_deleteSessionUncaught(S, sessionId) ==
  { [threw |-> o.threw, failed |-> o.threw, st |-> o.st, ret |-> ~o.threw] :
      o \in MongoDBStorage_deleteSession(S, sessionId) }

\* deleteSession(sessionId) of the session module: DEPLOYMENT.md:441-452
session_deleteSession(S, sessionId) ==
  { Settled(o, TRUE, FALSE) : o \in MongoDBStorage_deleteSession(S, sessionId) }

\* cleanupExpiredSessions(): DEPLOYMENT.md:458-473
cleanupExpiredSessions(S, t) ==
  { Settled(o, o.ret, 0) : o \in MongoDBStorage_deleteExpiredSessions(S, t) }

\* the calls of a direct caller of the session module; hOp.pre is the record
\* the database held under the identifier, returned is what the call returned
NothingReturned == [session |-> Null, deleted |-> FALSE, count |-> 0]

SessionCalled(op, id, t, out, failed, returned) ==
  /\ hCount < MaxOps
  /\ hCount' = hCount + 1
  /\ now' = t
  /\ store' = out.st
  /\ hOp' = [NoOp EXCEPT !.op = op, !.sid = id, !.t = t,
                         !.pre = IF id = "" THEN NoRec ELSE store.db[id],
                         !.threw = out.threw, !.failed = failed,
                         !.session = returned.session,
                         !.messages = returned.session.messages,
                         !.deleted = returned.deleted,
                         !.count = returned.count]
  /\ UNCHANGED <<adapterKind, storageInstance, caller, storageCalls, relayVars>>

CallGetOrCreateSession ==
  \E sessionId \in ClientSids \cup {""}, t \in ClockReadings :
    \E out \in getOrCreateSession(store, sessionId, t) :
      SessionCalled("getOrCreateSession",
                    IF sessionId # "" THEN sessionId ELSE generateSessionId(1),
                    t, out, out.threw, [NothingReturned EXCEPT !.session = out.ret])

CallResolveSession ==
  \E sid \in ClientSids, t \in ClockReadings :
    \E out \in resolveSession(store, storageInstance, sid, t) :
      Called("resolveSession", sid, t, out, out.ret, SessionMessages(out.st, out.ret))

CallRefreshSession ==
  \E sid \in ClientSids, t \in ClockReadings :
    \E out \in refreshSession(store, sid, t) :
      SessionCalled("refreshSession", sid, t, out, out.failed, NothingReturned)

CallSessionDelete ==
  \E sid \in ClientSids, t \in ClockReadings :
    \E out \in session_deleteSession(store, sid) :
      SessionCalled("session.deleteSession", sid, t, out, out.failed,
                    [NothingReturned EXCEPT !.deleted = out.ret])

CallCleanupExpiredSessions ==
  \E t \in ClockReadings :
    \E out \in cleanupExpiredSessions(store, t) :
      SessionCalled("cleanupExpiredSessions", "", t, out, out.failed,
                    [NothingReturned EXCEPT !.count = out.ret])

(***************************************************************************)
(* Direct callers of getStorage (logger.ts:421-453), as the handlers of    *)
(* the first requests after a start are.  storageCalls[c] is the call of   *)
(* caller c: where it is, how its probe ended, and the adapter returned.   *)
(***************************************************************************)
StorageCallers == 1..NumCallers

NoStorageCall == [pc |-> "idle", probe |-> "none", storage |-> 0]

\* logger.ts:424-426: the memoized adapter is returned
GetStorageReturnsMemo(c) ==
  /\ storageCalls[c].pc = "idle"
  /\ storageInstance # 0
  /\ storageCalls' = [storageCalls EXCEPT ![c].pc = "returned",
                                          ![c].storage = storageInstance]
  /\ UNCHANGED <<now, storeVars, hOp, hCount, caller, relayVars>>

\* logger.ts:424-441: nothing is memoized, the probe is started and awaited
GetStorageStartsProbe(c) ==
  /\ storageCalls[c].pc = "idle"
  /\ storageInstance = 0
  /\ storageCalls' = [storageCalls EXCEPT ![c].pc = "probing"]
  /\ UNCHANGED <<now, storeVars, hOp, hCount, caller, relayVars>>

\* logger.ts:441-452: the await ends, an adapter is constructed, memoized and
\* returned
GetStorageSettles(c) ==
  /\ storageCalls[c].pc = "probing"
  /\ \E outcome \in ProbeOutcomes :
       /\ Bind(adapterFor(outcome))
       /\ storageCalls' = [storageCalls EXCEPT ![c] =
            [pc |-> "returned", probe |-> outcome,
             storage |-> Len(adapterKind) + 1]]
  /\ UNCHANGED <<now, hOp, hCount, caller, relayVars>>

(***************************************************************************)
(* The string helper truncate (src/unnamed/part_005:36-39) and a direct    *)
(* caller of it.  A string is the sequence of its characters.              *)
(***************************************************************************)
Min(a, b) == IF a <= b THEN a ELSE b

Max(a, b) == IF a >= b THEN a ELSE b

\* str.slice(0, end): a negative end counts from the end of the string
slice0(str, end) ==
  SubSeq(str, 1, IF end < 0 THEN Max(Len(str) + end, 0) ELSE Min(end, Len(str)))

Ellipsis == <<".", ".", ".">>

\* a truncate that keeps maxLength characters in front of the ellipsis
truncateKeepsMax(str, maxLength) ==
  IF Len(str) <= maxLength THEN str
  ELSE slice0(str, maxLength) \o Ellipsis

\* truncate(str, maxLength): part_005:36-39
truncate(str, maxLength) ==
  IF Len(str) <= maxLength THEN str
  ELSE slice0(str, maxLength - 3) \o Ellipsis

\* the strings of at most n characters
Strings(n) == UNION { [1..k -> {"a", "."}] : k \in 0..n }

\* the arguments a caller of a helper holds before the call
HelperInput(fn, str, maxLength, messages) ==
  [fn |-> fn, str |-> str, maxLength |-> maxLength, messages |-> messages]

TruncateInputs ==
  { HelperInput("truncate", str, maxLength, <<>>) :
      str \in Strings(MaxStrLen), maxLength \in 0..(MaxStrLen + 1) }

\* hOp.input holds the arguments, hOp.output the string returned
CallTruncate ==
  /\ hOp.op = "none"
  /\ hOp.input.fn = "truncate"
  /\ hOp' = [hOp EXCEPT !.op = "truncate",
                        !.output = truncate(hOp.input.str, hOp.input.maxLength)]
  /\ UNCHANGED <<now, storeVars, hCount, caller, storageCalls, relayVars>>

(***************************************************************************)
(* toAnthropicMessages (claude.ts:33-73) and a direct caller of it.  The   *)
(* content of a MessageParam is a string ("text") or an array of content   *)
(* blocks ("blocks").                                                      *)
(***************************************************************************)
ImageBlock(image) ==
  [type |-> "image", media_type |-> image.mimeType, data |-> image.data,
   text |-> <<>>]

TextContentBlock(text) ==
  [type |-> "text", media_type |-> "", data |-> "", text |-> text]

RECURSIVE ImageBlocks(_)
\* the for loop over msg.images: claude.ts:42-51
ImageBlocks(images) ==
  IF images = <<>> THEN <<>>
  ELSE <<ImageBlock(Head(images))>> \o ImageBlocks(Tail(images))

\* a translation that puts the text block in front of the image blocks
toAnthropicMessageTextFirst(msg) ==
  IF msg.images # <<>>
  THEN [role |-> msg.role, kind |-> "blocks", text |-> <<>>,
        blocks |-> (IF msg.content # <<>> THEN <<TextContentBlock(msg.content)>>
                    ELSE <<>>)
                   \o ImageBlocks(msg.images)]
  ELSE [role |-> msg.role, kind |-> "text", text |-> msg.content, blocks |-> <<>>]

\* the callback of messages.map: claude.ts:36-72
toAnthropicMessage(msg) ==
  IF msg.images # <<>>
  THEN [role |-> msg.role, kind |-> "blocks", text |-> <<>>,
        blocks |-> ImageBlocks(msg.images)
                   \o (IF msg.content # <<>> THEN <<TextContentBlock(msg.content)>>
                       ELSE <<>>)]
  ELSE [role |-> msg.role, kind |-> "text", text |-> msg.content, blocks |-> <<>>]

\* toAnthropicMessages(messages): claude.ts:33-73
toAnthropicMessages(messages) ==
  [i \in 1..Len(messages) |-> toAnthropicMessage(messages[i])]

\* the ChatMessage values of the caller: with and without text, with no, one
\* or two images
ChatImages ==
  { [mimeType |-> "image/png", data |-> "AAAA"],
    [mimeType |-> "image/jpeg", data |-> "BBBB"] }

ChatMessages ==
  { [role |-> ro, content |-> c, images |-> im] :
      ro \in {"user", "assistant"}, c \in {<<>>, <<"x">>},
      im \in UNION { [1..k -> ChatImages] : k \in 0..2 } }

TranslationInputs ==
  { HelperInput("toAnthropicMessages", <<>>, 0, messages) :
      messages \in UNION { [1..k -> ChatMessages] : k \in 0..MaxMsgs } }

CallToAnthropicMessages ==
  /\ hOp.op = "none"
  /\ hOp.input.fn = "toAnthropicMessages"
  /\ hOp' = [hOp EXCEPT !.op = "toAnthropicMessages",
                        !.output = toAnthropicMessages(hOp.input.messages)]
  /\ UNCHANGED <<now, storeVars, hCount, caller, storageCalls, relayVars>>

(***************************************************************************)
(* Two POST /api/chat handlers that were sent the same sessionId and run   *)
(* at the same time on the bound adapter: their storage calls              *)
(* (layout.tsx:239-253 and 278), one call a step, in any interleaving.     *)
(* The clock stands still meanwhile, so nothing expires under them.        *)
(* userStored is a history variable: the handler's addMessage of the user  *)
(* message returned.                                                       *)
(***************************************************************************)
PairHandlers == 1..2

PairSid == "s1"

NoHandler ==
  [pc |-> "idle", session |-> Null, userMessage |-> <<>>,
   assistantResponse |-> <<>>, userStored |-> FALSE]

NoPair == [h \in PairHandlers |-> NoHandler]

\* both requests passed validation and got the adapter from getStorage
PairAccepted ==
  [h \in PairHandlers |->
     [NoHandler EXCEPT !.pc = "getSession", !.userMessage = <<"m" \o ToString(h)>>]]

PairFinished(h) == pair[h].pc \in {"completed", "errored", "http500"}

PairUnchanged ==
  UNCHANGED <<now, adapterKind, storageInstance, harnessVars, env, client,
              anthropicClient, req>>

\* layout.tsx:239-247
PairResolveSession(h) ==
  /\ pair[h].pc = "getSession"
  /\ \E o \in getSession(store, storageInstance, PairSid, now) :
       /\ store' = o.st
       /\ pair' = [pair EXCEPT ![h] =
            IF o.threw THEN [@ EXCEPT !.pc = "http500"]
            ELSE IF o.ret.kind = "null" THEN [@ EXCEPT !.pc = "createSession"]
            ELSE IF isSessionExpired(SessionExpiresAt(o.st, o.ret), now)
                 THEN [@ EXCEPT !.pc = "deleteSession", !.session = o.ret]
                 ELSE [@ EXCEPT !.pc = "addUser", !.session = o.ret]]
  /\ PairUnchanged

\* layout.tsx:247-250
PairCreateSession(h) ==
  /\ pair[h].pc = "createSession"
  /\ \E o \in createSession(store, storageInstance, PairSid, getSessionExpiresAt(now)) :
       /\ store' = o.st
       /\ pair' = [pair EXCEPT ![h] =
            IF o.threw THEN [@ EXCEPT !.pc = "http500"]
            ELSE [@ EXCEPT !.pc = "addUser", !.session = o.ret]]
  /\ PairUnchanged

\* layout.tsx:253
PairSaveUserMessage(h) ==
  /\ pair[h].pc = "addUser"
  /\ \E o \in addMessage(store, storageInstance, PairSid,
                         [role |-> "user", content |-> pair[h].userMessage], now) :
       /\ store' = o.st
       /\ pair' = [pair EXCEPT ![h] =
            IF o.threw THEN [@ EXCEPT !.pc = "http500"]
            ELSE [@ EXCEPT !.pc = "streaming", !.userStored = TRUE]]
  /\ PairUnchanged

\* the generator threw: layout.tsx:282-287
PairStreamFails(h) ==
  /\ pair[h].pc = "streaming"
  /\ pair' = [pair EXCEPT ![h].pc = "errored"]
  /\ UNCHANGED store
  /\ PairUnchanged

\* the generator returned and the reply is saved: layout.tsx:278-281
PairSaveAssistantMessage(h) ==
  /\ pair[h].pc = "streaming"
  /\ LET reply == <<"a" \o ToString(h)>>
     IN \E o \in addMessage(store, storageInstance, PairSid,
                            [role |-> "assistant", content |-> reply], now) :
          /\ store' = o.st
          /\ pair' = [pair EXCEPT ![h] =
               IF o.threw THEN [@ EXCEPT !.pc = "errored", !.assistantResponse = reply]
               ELSE [@ EXCEPT !.pc = "completed", !.assistantResponse = reply]]
  /\ PairUnchanged

(***************************************************************************)
(* sendChatMessage of the browser client (src/unnamed/part_004:36-102),   *)
(* one step for each await: the fetch, then each reader.read().  The       *)
(* response is whatever a server or the network may deliver.  calls is the *)
(* sequence of callback invocations so far.                                *)
(***************************************************************************)
NoClient ==
  [pc |-> "idle", reads |-> 0, accumulatedText |-> <<>>, calls |-> <<>>]

OnChunk(text) == [cb |-> "onChunk", text |-> text, error |-> ""]

OnError(error) == [cb |-> "onError", text |-> <<>>, error |-> error]

OnDone(fullText) == [cb |-> "onDone", text |-> fullText, error |-> ""]

\* A line of a chunk: whether it starts with 'data: ', whether JSON.parse
\* takes the rest, and the StreamEvent it then is.
SSELine(event) == [data |-> TRUE, json |-> TRUE, event |-> event]

\* a line cut by the end of the chunk, which JSON.parse turns down
CutLine == [data |-> TRUE, json |-> FALSE, event |-> DoneEvent]

\* the empty line between two events
BlankLine == [data |-> FALSE, json |-> FALSE, event |-> DoneEvent]

Lines ==
  { SSELine(ContentEvent(<<"a">>)), SSELine(ContentEvent(<<"b">>)),
    SSELine(ContentEvent(<<>>)),
    SSELine(ErrorEvent("boom")), SSELine(ErrorEvent("")), SSELine(DoneEvent),
    CutLine, BlankLine }

\* chunk.split('\n') of the chunks a read may deliver
Chunks == UNION { [1..k -> Lines] : k \in 1..2 }

RECURSIVE ForEachLine(_, _)
\* the for loop over the lines of one chunk: part_004:73-93; returned says
\* that the function returned from inside the loop
ForEachLine(lines, c) ==
  IF lines = <<>> THEN [client |-> c, returned |-> FALSE]
  ELSE LET line == Head(lines)
           data == line.event
       IN IF ~line.data \/ ~line.json THEN ForEachLine(Tail(lines), c)
          ELSE IF data.type = "content" /\ data.text # <<>>
               THEN ForEachLine(Tail(lines),
                                [c EXCEPT !.accumulatedText = @ \o data.text,
                                          !.calls = Append(@, OnChunk(data.text))])
          ELSE IF data.type = "error" /\ data.error # ""
               THEN [client |-> [c EXCEPT !.calls = Append(@, OnError(data.error))],
                     returned |-> TRUE]
          ELSE IF data.type = "done"
               THEN [client |-> [c EXCEPT !.calls = Append(@, OnDone(c.accumulatedText))],
                     returned |-> TRUE]
               ELSE ForEachLine(Tail(lines), c)

UnexpectedErrorText == "unexpected error"

\* catch of sendChatMessage: part_004:95-101; the fixed text stands for the
\* one the source gives for a value that is no Error
ClientCatch(c, e) ==
  [c EXCEPT !.pc = "returned",
            !.calls = Append(@, OnError(IF e.isError THEN e.text
                                        ELSE UnexpectedErrorText))]

ServerErrorText == "server error"

\* the bodies of a response that is not ok: JSON with error.message, JSON
\* without it, and no JSON
ErrorBodies ==
  { [json |-> TRUE, message |-> InternalErrorText], [json |-> TRUE, message |-> ""],
    [json |-> FALSE, message |-> ""] }

\* the Error thrown for a response that is not ok: part_004:54-57
HttpError(status, body) ==
  LET message == IF body.json THEN body.message ELSE ServerErrorText
  IN Err(IF message # "" THEN message
         ELSE "HTTP error! status: " \o ToString(status))

ClientUnchanged ==
  UNCHANGED <<now, storeVars, harnessVars, env, pair, anthropicClient, req>>

\* await fetch(...) settles: part_004:46-62
ClientFetchSettles ==
  /\ client.pc = "fetching"
  /\ \/ \E thrown \in Throwables : client' = ClientCatch(client, thrown)
     \/ \E status \in {400, 500}, body \in ErrorBodies :
          client' = ClientCatch(client, HttpError(status, body))
     \/ client' = ClientCatch(client, Err("Response body is null"))
     \/ client' = [client EXCEPT !.pc = "reading"]
  /\ ClientUnchanged

\* await reader.read() settles: part_004:66-94
ClientReads ==
  /\ client.pc = "reading"
  /\ \/ client' = [client EXCEPT !.pc = "returned"]
     \/ \E thrown \in Throwables : client' = ClientCatch(client, thrown)
     \/ /\ client.reads < MaxReads
        /\ \E chunk \in Chunks :
             LET step == ForEachLine(chunk, [client EXCEPT !.reads = @ + 1])
             IN client' = IF step.returned
                          THEN [step.client EXCEPT !.pc = "returned"]
                          ELSE step.client
  /\ ClientUnchanged

InitStore ==
  /\ now = 0
  /\ adapterKind \in {<<"memory">>, <<"mongo">>}
  /\ storageInstance = 1
  /\ store = [EmptyStore EXCEPT !.mem = <<[s \in AllSids |-> 0]>>]
  /\ hOp = NoOp
  /\ hCount = 0
  /\ caller = NoCaller
  /\ storageCalls = [c \in StorageCallers |-> NoStorageCall]
  /\ apiKey = TRUE
  /\ sessionExpiry \in ExpirySettings
  /\ anthropicClient = FALSE
  /\ req = [r \in Reqs |-> IdleReq]
  /\ pair = NoPair
  /\ client = NoClient

NextStore ==
  \/ CallCreateSession
  \/ CallGetSession
  \/ CallDeleteSession
  \/ CallAddMessage
  \/ CallGetMessages

SpecStore == InitStore /\ [][NextStore]_vars

\* the caller keeps the Session value its last call returned
KeepSession ==
  /\ hOp.op \in {"createSession", "getSession"}
  /\ ~hOp.threw
  /\ hOp.session.kind # "null"
  /\ hOp.held = NoHeld
  /\ hOp' = [hOp EXCEPT !.held = [session |-> hOp.session,
                                  messages |-> SessionMessages(store, hOp.session)]]
  /\ UNCHANGED <<now, storeVars, hCount, caller, storageCalls, relayVars>>

\* storage calls of a caller that may keep a Session value across them
NextHeld ==
  \/ CallCreateSession
  \/ CallGetSession
  \/ CallDeleteSession
  \/ CallAddMessage
  \/ KeepSession

SpecHeld == InitStore /\ [][NextHeld]_vars

\* sessions are created and written to, and their history is fetched
NextHistory ==
  \/ CallCreateSession
  \/ CallAddMessage
  \/ CallHistory

SpecHistory == InitStore /\ [][NextHistory]_vars

\* the sweep interleaved with the storage calls of the requests in flight
NextSweep ==
  \/ RequestCreatesSession
  \/ RequestAddsMessage
  \/ CallDeleteExpiredSessions

InitSweep == InitStore /\ sessionExpiry = <<>>

SpecSweep == InitSweep /\ [][NextSweep]_vars

\* sessions are resolved, written to, refreshed, deleted and cleaned up
NextSession ==
  \/ CallGetOrCreateSession
  \/ CallResolveSession
  \/ CallAddMessage
  \/ CallRefreshSession
  \/ CallSessionDelete
  \/ CallCleanupExpiredSessions

SpecSession == InitStore /\ [][NextSession]_vars

\* a process in which nothing but the helpers is called
HelperInputs == TruncateInputs \cup TranslationInputs

\* a caller holds the arguments of one helper call; nothing else is running
InitHelpers ==
  /\ now = 0
  /\ adapterKind = <<"memory">>
  /\ storageInstance = 1
  /\ store = [EmptyStore EXCEPT !.mem = <<[s \in AllSids |-> 0]>>]
  /\ hOp \in { [NoOp EXCEPT !.input = i] : i \in HelperInputs }
  /\ hCount = 0
  /\ caller = NoCaller
  /\ storageCalls = [c \in StorageCallers |-> NoStorageCall]
  /\ apiKey = TRUE
  /\ sessionExpiry = <<>>
  /\ anthropicClient = FALSE
  /\ req = [r \in Reqs |-> IdleReq]
  /\ pair = NoPair
  /\ client = NoClient

NextHelpers ==
  \/ CallTruncate
  \/ CallToAnthropicMessages

SpecHelpers == InitHelpers /\ [][NextHelpers]_vars

(***************************************************************************)
(* The server: request handlers running concurrently, and the clock.       *)
(***************************************************************************)
\* The server has started; getStorage() has not been called yet, or a
\* request served earlier has bound an adapter of either class.
ServerStarted ==
  /\ now = 0
  /\ \/ adapterKind = <<>> /\ storageInstance = 0 /\ store = InitialStore
     \/ /\ adapterKind \in {<<"memory">>, <<"mongo">>}
        /\ storageInstance = 1
        /\ store = [InitialStore EXCEPT !.mem = <<[s \in AllSids |-> 0]>>]
  /\ hOp = NoOp
  /\ hCount = 0
  /\ storageCalls = [c \in StorageCallers |-> NoStorageCall]
  /\ apiKey \in BOOLEAN
  /\ sessionExpiry = <<>>
  /\ anthropicClient = FALSE
  /\ req = [r \in Reqs |-> IdleReq]
  /\ pair = NoPair
  /\ client = NoClient

Init == ServerStarted /\ caller = NoCaller

Next ==
  \/ HistoryFetch
  \/ \E r \in Reqs :
       \/ Receive(r)
       \/ GetStorageMemo(r)
       \/ GetStorageProbe(r)
       \/ ProbeSettled(r)
       \/ ResolveSession(r)
       \/ ExpireSession(r)
       \/ CreateSession(r)
       \/ SaveUserMessage(r)
       \/ UpstreamAttempt(r)
       \/ SaveAssistantMessage(r)

Spec == Init /\ [][Next]_vars

\* the next step of the handler of request slot r
RelayStep(r) ==
  \/ Receive(r)
  \/ GetStorageMemo(r)
  \/ GetStorageProbe(r)
  \/ ProbeSettled(r)
  \/ ResolveSession(r)
  \/ ExpireSession(r)
  \/ CreateSession(r)
  \/ SaveUserMessage(r)
  \/ UpstreamAttempt(r)
  \/ SaveAssistantMessage(r)

\* One request is served from its arrival to its end.  No step of a handler
\* waits for another request (each guard reads the handler's own pc, and
\* getStorage has a step for either value of storageInstance), so the other
\* slots are left idle.
NextRelay == RelayStep(1)

\* Every storage call, every probe (it races a timeout) and every upstream
\* call settles, and the event loop then runs the continuation of the handler
\* that awaits it: a handler that can take a step takes it.
SpecRelay == Init /\ [][NextRelay]_vars /\ WF_vars(RelayStep(1))

\* one chat request is served while a client reads histories
NextFailures ==
  \/ RelayStep(1)
  \/ storageInstance # 0 /\ CallHistory

SpecFailures == Init /\ [][NextFailures]_vars

\* the store when the two requests arrive: nothing under their identifier,
\* or the session an earlier request of the client left there
PairStores ==
  LET earlier == <<MessageData([role |-> "user", content |-> <<"m0">>], 1)>>
      bare == [EmptyStore EXCEPT !.mem = <<[s \in AllSids |-> 0]>>]
  IN { bare,
       [bare EXCEPT !.mem[1][PairSid] = 1,
                    !.heap = <<[NewSession(1, DefaultExpirySeconds)
                                  EXCEPT !.messages = earlier, !.appended = earlier]>>] }

InitPair ==
  /\ now = 0
  /\ adapterKind = <<"memory">>
  /\ storageInstance = 1
  /\ store \in PairStores
  /\ hOp = NoOp
  /\ hCount = 0
  /\ caller = NoCaller
  /\ storageCalls = [c \in StorageCallers |-> NoStorageCall]
  /\ apiKey = TRUE
  /\ sessionExpiry = <<>>
  /\ anthropicClient = FALSE
  /\ req = [r \in Reqs |-> IdleReq]
  /\ pair = PairAccepted
  /\ client = NoClient

NextPair ==
  \E h \in PairHandlers :
    \/ PairResolveSession(h)
    \/ PairCreateSession(h)
    \/ PairSaveUserMessage(h)
    \/ PairStreamFails(h)
    \/ PairSaveAssistantMessage(h)

SpecPair == InitPair /\ [][NextPair]_vars

\* the browser has called sendChatMessage; the server is not modelled here
InitBrowser ==
  /\ now = 0
  /\ adapterKind = <<"memory">>
  /\ storageInstance = 1
  /\ store = [EmptyStore EXCEPT !.mem = <<[s \in AllSids |-> 0]>>]
  /\ hOp = NoOp
  /\ hCount = 0
  /\ caller = NoCaller
  /\ storageCalls = [c \in StorageCallers |-> NoStorageCall]
  /\ apiKey = TRUE
  /\ sessionExpiry = <<>>
  /\ anthropicClient = FALSE
  /\ req = [r \in Reqs |-> IdleReq]
  /\ pair = NoPair
  /\ client = [NoClient EXCEPT !.pc = "fetching"]

NextBrowser == ClientFetchSettles \/ ClientReads

SpecBrowser == InitBrowser /\ [][NextBrowser]_vars

NextClient == IterateStart \/ IterateAttempt \/ CompletionStart \/ CompletionSettled

\* the server has started and the direct caller is about to make its calls,
\* the upstream answering its streaming calls with some sequence of events
InitClient ==
  /\ ServerStarted
  /\ \E script \in Scripts(MaxEvents) : caller = [NoCaller EXCEPT !.script = script]

SpecClient == InitClient /\ [][NextClient]_vars

\* the stream of a response is produced from an upstream and a storage that
\* reject with any value
NextStart ==
  \/ IterateStart
  \/ StartIteratesAttempt
  \/ StartCatchesUpstream
  \/ StartSavesReply

SpecStart == InitClient /\ [][NextStart]_vars

\* the process has started and nothing has called getStorage yet
InitBinding ==
  /\ Init
  /\ storageInstance = 0
  /\ apiKey

NextBinding ==
  \E c \in StorageCallers :
    \/ GetStorageReturnsMemo(c)
    \/ GetStorageStartsProbe(c)
    \/ GetStorageSettles(c)

SpecBinding == InitBinding /\ [][NextBinding]_vars

(***************************************************************************)
(* Claims about the StorageAdapter, stated on the last call of the direct  *)
(* caller.                                                                 *)
(***************************************************************************)

\* C1: a read of a session that is stored and not expired (getSession or
\* getMessages) returns exactly the messages addMessage was called with on
\* that session, in call order.
C1_ReadReturnsAppendOrder ==
  (hOp.op \in {"getSession", "getMessages"} /\ ~hOp.threw
     /\ hOp.pre.id # 0 /\ ~isSessionExpired(hOp.pre.expiresAt, hOp.t))
  => hOp.messages = hOp.pre.appended

\* C2: getSession never returns a session whose expiresAt is earlier than the
\* clock; for such a stored session it returns null and the session is no
\* longer stored afterwards.
C2_GetSessionNeverReturnsExpired ==
  (hOp.op = "getSession" /\ ~hOp.threw)
  => /\ hOp.session.kind # "null"
          => ~(SessionExpiresAt(store, hOp.session) < hOp.t)
     /\ (hOp.pre.id # 0 /\ hOp.pre.expiresAt < hOp.t)
          => /\ hOp.session.kind = "null"
             /\ Stored(store, storageInstance, hOp.sid).id = 0

(***************************************************************************)
(* Claims about POST /api/chat.                                            *)
(***************************************************************************)
UserTurn(q) == [role |-> "user", content |-> q.userMessage]

Roles(msgs) == [i \in 1..Len(msgs) |-> msgs[i].role]

\* the request passed JSON parsing, validateRequest and validateImages
ValidRequest(q) ==
  /\ q.pc # "idle"
  /\ q.body.json
  /\ validateRequest(q.body)
  /\ Len(q.body.images.items) > 0 => validateImages(q.body.images.items).valid

\* the session the request wrote its user message to is the one stored now
SessionIntact(r) ==
  Stored(store, req[r].storage, req[r].sessionId).id = req[r].userObj

\* the user message of the request is among the stored session's messages
UserMessageStored(r) ==
  LET s == Stored(store, req[r].storage, req[r].sessionId)
  IN /\ s.id # 0
     /\ req[r].appends # <<>>
     /\ \E i \in 1..Len(s.messages) : s.messages[i] = req[r].appends[1]

\* C3 as stated: every valid request, once answered, has appended exactly
\* one user message, exactly one assistant message when it ended with done
\* and none when it failed, and after a failure the user message is stored.
C3_EveryValidRequestAppends ==
  \A r \in Reqs :
    (ValidRequest(req[r]) /\ req[r].pc \in Terminal)
    => /\ Len(req[r].appends) >= 1
       /\ req[r].appends[1].role = "user"
       /\ req[r].pc = "completed" => Roles(req[r].appends) = <<"user", "assistant">>
       /\ req[r].pc # "completed"
            => Roles(req[r].appends) = <<"user">> /\ UserMessageStored(r)

\* C3 (amended): a valid request that is answered with an event stream has
\* appended exactly one user message, carrying the request's message, before
\* the stream opens; it appends exactly one assistant message, after the user
\* message, if the stream ends with done and none if it ends with error; a
\* request answered without a stream has appended nothing.  After a failed
\* stream the user message is still stored as long as the session it was
\* written to has not been deleted.
C3_StreamedRequestAppends ==
  \A r \in Reqs :
    /\ req[r].status # 200 => req[r].appends = <<>>
    /\ req[r].status = 200
       => /\ ValidRequest(req[r])
          /\ Roles(req[r].appends) \in {<<"user">>, <<"user", "assistant">>}
          /\ req[r].appends[1].content = req[r].userMessage
          /\ req[r].pc = "completed" <=> Len(req[r].appends) = 2
          /\ (req[r].pc = "errored" /\ SessionIntact(r)) => UserMessageStored(r)

\* a stream that failed after its last attempt, the user message still stored
C3_Witness ==
  \E r \in Reqs :
    /\ req[r].pc = "errored"
    /\ req[r].gen.attempt = MAX_RETRIES
    /\ Roles(req[r].appends) = <<"user">>
    /\ UserMessageStored(r)

\* C4: the messages passed to streamChatCompletion are the session's prior
\* history, in order, followed by the new user turn exactly once.
C4_UpstreamGetsHistoryThenUserOnce ==
  \A r \in Reqs :
    req[r].status = 200
    => req[r].chatMessages = req[r].prior \o <<UserTurn(req[r])>>

\* C5: a streaming response is zero or more content events followed by
\* exactly one terminal event, done or error; the terminal event is the last
\* event and the stream is closed exactly when it has been emitted.
C5_StreamShape ==
  \A r \in Reqs :
    LET q == req[r] IN
    /\ q.status # 200 => q.events = <<>> /\ ~q.closed
    /\ q.closed <=> q.pc \in {"completed", "errored"}
    /\ q.closed => q.events # <<>>
    /\ \A i \in 1..Len(q.events) :
         /\ q.events[i].type \in {"content", "done", "error"}
         /\ q.events[i].type \in {"done", "error"} <=> (q.closed /\ i = Len(q.events))

\* a closed stream that delivered content and then its error event
C5_Witness ==
  \E r \in Reqs :
    /\ req[r].closed
    /\ Len(req[r].events) >= 2
    /\ req[r].events[1].type = "content"
    /\ req[r].events[Len(req[r].events)].type = "error"

\* the texts of the content events, in order
EventTexts(evs) ==
  LET c == SelectSeq(evs, LAMBDA e : e.type = "content")
  IN [i \in 1..Len(c) |-> c[i].text]

\* C6: when a done event has been emitted, the request has stored an
\* assistant message whose content is the concatenation, in order, of the
\* texts of the response's content events.
C6_DoneAfterAssistantPersisted ==
  \A r \in Reqs :
    (\E i \in 1..Len(req[r].events) : req[r].events[i].type = "done")
    => /\ Len(req[r].appends) = 2
       /\ req[r].appends[2].role = "assistant"
       /\ req[r].appends[2].content = Concat(EventTexts(req[r].events))

\* done after content events of two attempts
C6_Witness ==
  \E r \in Reqs :
    /\ req[r].pc = "completed"
    /\ req[r].gen.attempt = 2
    /\ Len(EventTexts(req[r].events)) = 2

\* C7: for a request that ends with done, the concatenation of the content
\* events' texts is the full text of the successful upstream call, also when
\* an earlier attempt failed after delivering fragments.
C7_DoneTextIsUpstreamText ==
  \A r \in Reqs :
    req[r].pc = "completed"
    => Concat(EventTexts(req[r].events)) = UpstreamText(req[r].gen.attempt)

Calls(trace) == Len(SelectSeq(trace, LAMBDA e : e.k = "call"))

\* this step of request r issues an upstream call
CallIssued(r) ==
  /\ req'[r].n = req[r].n
  /\ Calls(req'[r].gen.trace) > Calls(req[r].gen.trace)

\* C8 as stated: whenever an upstream call is issued, the session contains the
\* request's user message.
C8_UserStoredAtEveryUpstreamCall ==
  [][\A r \in Reqs : CallIssued(r) => UserMessageStored(r)']_vars

\* C8 (amended): whenever an upstream call is issued, the write of the
\* request's user message has completed, and the session contains that
\* message unless the session has been deleted since the write.
C8_UserSavedBeforeEveryUpstreamCall ==
  [][\A r \in Reqs :
       CallIssued(r) => /\ Len(req'[r].appends) >= 1
                        /\ req'[r].appends[1].role = "user"
                        /\ SessionIntact(r)' => UserMessageStored(r)']_vars

\* a retried upstream call under way, the user message stored
C8_Witness ==
  \E r \in Reqs :
    /\ req[r].pc = "streaming"
    /\ req[r].gen.attempt >= 2
    /\ UserMessageStored(r)

\* C9: a request whose body has a non-empty message and no sessionId is not
\* rejected; its stream carries the identifier the server generated.
C9_MissingSessionIdAccepted ==
  \A r \in Reqs :
    (req[r].pc # "idle" /\ req[r].body.json /\ ~req[r].body.sidIsString
       /\ req[r].body.msgIsString /\ Len(trim(req[r].body.message)) # 0)
    => /\ req[r].status # 400
       /\ req[r].status = 200 => req[r].headerSid = generateSessionId(req[r].n)

(***************************************************************************)
(* Claims about the retry loops of claude.ts.                              *)
(***************************************************************************)
\* the calls and sleeps of a call whose three attempts all failed
ExhaustedTrace ==
  << CallEntry, SleepEntry(1 * RETRY_DELAY_MS),
     CallEntry, SleepEntry(2 * RETRY_DELAY_MS), CallEntry >>

\* C10: when every upstream attempt of a createChatCompletion or
\* streamChatCompletion call has failed, the call has made exactly 3 attempts,
\* has slept RETRY_DELAY_MS before the second and twice that before the third,
\* and has not slept after the third.
C10_ThreeAttemptsLinearBackoff ==
  /\ (caller.gen.st = "threw" /\ caller.gen.attempt > 0)
       => caller.gen.attempt = 3 /\ caller.gen.trace = ExhaustedTrace
  /\ (caller.completion.st = "threw" /\ caller.completion.attempt > 0)
       => caller.completion.attempt = 3 /\ caller.completion.trace = ExhaustedTrace

\* both calls have thrown after their attempts failed
C10_Witness ==
  /\ caller.gen.st = "threw"
  /\ caller.gen.lastError = UpstreamError(MAX_RETRIES)
  /\ caller.completion.st = "threw"
  /\ caller.completion.lastError = NoTextError
  /\ caller.completion.attempt = MAX_RETRIES

Sleeps(trace) == Len(SelectSeq(trace, LAMBDA e : e.k = "sleep"))

\* C11: when a createChatCompletion call has returned after exactly one failed
\* attempt, it has made exactly two upstream calls, the second after a sleep
\* of RETRY_DELAY_MS, and what it returns is the text of the second call's
\* response.
C11_SecondAttemptResultReturned ==
  LET c == caller.completion
  IN (c.st = "returned" /\ Sleeps(c.trace) = 1)
       => /\ Calls(c.trace) = 2
          /\ c.trace = <<CallEntry, SleepEntry(RETRY_DELAY_MS), CallEntry>>
          /\ c.result = UpstreamText(2)

\* the first call was rejected and the second call's text has been returned
C11_Witness ==
  /\ caller.completion.st = "returned"
  /\ caller.completion.lastError = UpstreamError(1)
  /\ caller.completion.result = UpstreamText(2)

C13_NoCredentialNoAttempt ==
  ~apiKey =>
    /\ caller.gen.st # "new"
         => /\ caller.gen.st = "threw"
            /\ caller.gen.lastError = ConfigError
            /\ caller.gen.trace = <<>>
    /\ caller.completion.st # "new"
         => /\ caller.completion.st = "threw"
            /\ caller.completion.lastError = ConfigError
            /\ caller.completion.trace = <<>>

\* both calls were made without a key and have thrown
C13_Witness ==
  /\ ~apiKey
  /\ caller.gen.st = "threw"
  /\ caller.completion.st = "threw"

\* C14: when a messages.create() response holds no text block,
\* createChatCompletion throws the no-text-content error without another
\* upstream call and without a sleep: the upstream call that got the response
\* is the last entry of the trace, and the only one when it was the first.
C14_NoTextNotRetried ==
  LET c == caller.completion
  IN c.lastError = NoTextError
       => /\ c.st = "threw"
          /\ c.trace[Len(c.trace)] = CallEntry
          /\ c.attempt = 1 => c.trace = <<CallEntry>>

\* the text_delta events among evs, in the order of evs
TextDeltas(evs) ==
  SelectSeq(evs, LAMBDA ev : ev.type = "content_block_delta" /\ ev.delta = "text_delta")

\* the texts of the text_delta events among evs, in the order of evs
DeltaTexts(evs) == [i \in 1..Len(TextDeltas(evs)) |-> TextDeltas(evs)[i].text]

\* C15: when the upstream stream of a streamChatCompletion call has completed
\* without error, the generator has yielded exactly the texts of the events
\* that are content_block_delta with a text_delta, in upstream order, and
\* nothing for any other event.
C15_YieldsTextDeltasInOrder ==
  (caller.gen.st = "returned" /\ caller.gen.attempt = 1)
    => caller.chunks = DeltaTexts(caller.script)

\* a stream of an input_json_delta and a text_delta has been iterated
C15_Witness ==
  /\ caller.gen.st = "returned"
  /\ caller.gen.attempt = 1
  /\ Len(caller.script) = 2
  /\ caller.script[1].delta = "input_json_delta"
  /\ caller.chunks = <<caller.script[2].text>>
  /\ caller.chunks # <<<<>>>>

\* the consumer's loop runs over one attempt in this step
AttemptIterated ==
  caller.gen.st = "open" /\ caller'.gen # caller.gen

\* C16: over every attempt of a streaming call the consumer's output grows by
\* fragments of that attempt, taken from the first fragment on, and what it
\* held before stays: a failed attempt leaves the fragments it yielded, and
\* the attempt that completes adds all fragments of the stream.
C16_FailedFragmentsKeptThenRestart ==
  [][AttemptIterated =>
       \E k \in 0..Len(DeltaTexts(caller.script)) :
         /\ caller'.chunks = caller.chunks \o SubSeq(DeltaTexts(caller.script), 1, k)
         /\ caller'.gen.st = "returned" => k = Len(DeltaTexts(caller.script))]_vars

\* the first attempt failed after one of two fragments, the second completed
C16_Witness ==
  /\ caller.gen.st = "returned"
  /\ caller.gen.attempt = 2
  /\ Len(DeltaTexts(caller.script)) = 2
  /\ caller.chunks = <<DeltaTexts(caller.script)[1]>> \o DeltaTexts(caller.script)

(***************************************************************************)
(* Claims about the requests the relay turns down.                         *)
(***************************************************************************)
\* the message of the body is missing, not a string, or blank
MessageMissingOrBlank(b) ==
  ~b.msgIsString \/ \A i \in 1..Len(b.message) : b.message[i] = " "

\* the images field is there and is not an array of shaped elements
ImagesMalformed(b) ==
  /\ b.images.present
  /\ ~b.images.isArray \/ \E i \in 1..Len(b.images.items) : ~b.images.items[i].shaped

\* the images are a non-empty array of shaped elements validateImages rejects
ImagesRejected(b) ==
  /\ b.images.isArray
  /\ b.images.items # <<>>
  /\ \A i \in 1..Len(b.images.items) : b.images.items[i].shaped
  /\ ~validateImages(b.images.items).valid

\* the body was parsed and fails validation
FailsValidation(b) ==
  /\ b.json
  /\ MessageMissingOrBlank(b) \/ ImagesMalformed(b) \/ ImagesRejected(b)

\* C17: a request whose body fails validation (message missing or blank,
\* images malformed, images rejected by validateImages) is answered 400
\* VALIDATION_ERROR in the step that receives it; that step leaves the store
\* and the adapter binding as they were, the request has no adapter, has made
\* no upstream call, has appended no message and has no stream, and it takes
\* no step afterwards.
C17_InvalidRequestRejectedWithoutEffect ==
  [][\A r \in Reqs :
       /\ (req[r].pc = "idle" /\ req'[r].pc # "idle" /\ FailsValidation(req'[r].body))
            => /\ req'[r].status = 400
               /\ req'[r].code = "VALIDATION_ERROR"
               /\ req'[r].pc \in Terminal
               /\ store' = store
               /\ storageInstance' = storageInstance
               /\ req'[r].storage = 0
               /\ req'[r].gen = NewGen
               /\ req'[r].appends = <<>>
               /\ req'[r].events = <<>>
               /\ ~req'[r].closed
       /\ req[r].status = 400 => req'[r] = req[r]]_vars

\* a request was turned down for its images by validateImages, the session it
\* named still as it was
C17_Witness ==
  \E r \in Reqs :
    /\ req[r].status = 400
    /\ ImagesRejected(req[r].body)
    /\ validateImages(req[r].body.images.items).error = "INVALID_DATA"
    /\ store.db["s1"] = DurableSession

\* the request has reported the configuration error
ConfigErrorReported(q) ==
  \E i \in 1..Len(q.events) : q.events[i] = ErrorEvent(ConfigError)

\* C18: a chat request that reports the configuration error (no
\* ANTHROPIC_API_KEY) has stored no message: the error is reported before the
\* handler has written to the store.
C18_ConfigErrorBeforeSideEffects ==
  \A r \in Reqs :
    ConfigErrorReported(req[r]) => req[r].appends = <<>> /\ req[r].userObj = 0

(***************************************************************************)
(* Claims about GET /api/chat/history, stated on the last call.            *)
(***************************************************************************)
\* C19: a history fetch for an identifier under which no session is stored,
\* the storage answering, returns 404 NOT_FOUND, and no session is stored
\* under the identifier afterwards.
C19_UnknownSessionNotFound ==
  (hOp.op = "history" /\ hOp.sid # "" /\ hOp.pre.id = 0 /\ ~hOp.threw)
    => /\ hOp.status = 404
       /\ hOp.code = "NOT_FOUND"
       /\ Stored(store, storageInstance, hOp.sid).id = 0

\* the first call is a fetch, answered 404
C19_Witness ==
  /\ hCount = 1
  /\ hOp.op = "history"
  /\ hOp.sid = "s1"
  /\ hOp.status = 404

\* C20: a history fetch for a stored session whose expiresAt is earlier than
\* the clock, the storage answering, returns 410 SESSION_EXPIRED and the
\* session is no longer stored afterwards, whichever adapter is bound.
C20_ExpiredSessionGone ==
  (hOp.op = "history" /\ hOp.sid # "" /\ hOp.pre.id # 0
     /\ isSessionExpired(hOp.pre.expiresAt, hOp.t) /\ ~hOp.threw)
    => /\ hOp.status = 410
       /\ hOp.code = "SESSION_EXPIRED"
       /\ Stored(store, storageInstance, hOp.sid).id = 0

(***************************************************************************)
(* Claims about deleting sessions and creating them on demand.             *)
(***************************************************************************)
\* C21: deleteSession for an identifier under which no session is stored
\* (never stored, or deleted by the call before) raises no error and leaves
\* the identifier without a session, whichever adapter is bound.
C21_DeleteMissingIsNoError ==
  (hOp.op = "deleteSession" /\ hOp.pre.id = 0)
    => /\ ~hOp.threw
       /\ Stored(store, storageInstance, hOp.sid).id = 0

\* C22: addMessage for an identifier under which no session is stored leaves
\* a session there that expires at the time of the call plus the configured
\* window, getSessionExpiresAt, and holds exactly the message.
C22_AddMessageCreatesWithConfiguredExpiry ==
  (hOp.op = "addMessage" /\ hOp.pre.id = 0 /\ ~hOp.threw)
    => LET session == Stored(store, storageInstance, hOp.sid)
       IN /\ session.id # 0
          /\ session.expiresAt = getSessionExpiresAt(hOp.t)
          /\ Len(session.messages) = 1
          /\ session.messages = session.appended

(***************************************************************************)
(* Claims about the expired-session sweep.                                 *)
(***************************************************************************)
\* the identifiers whose stored session expires earlier than t
ExpiredAt(t) ==
  { sid \in AllSids : /\ Stored(store, storageInstance, sid).id # 0
                      /\ Stored(store, storageInstance, sid).expiresAt < t }

\* C23: a deleteExpiredSessions call that the storage answers, made between
\* any two storage calls of the requests in flight, removes exactly the
\* sessions whose expiresAt is earlier than the clock, returns their number,
\* and leaves every other session with its messages as it was.
C23_SweepRemovesExactlyExpired ==
  [][(hCount' = hCount + 1 /\ hOp'.op = "deleteExpiredSessions" /\ ~hOp'.threw)
       => /\ hOp'.count = Cardinality(ExpiredAt(hOp'.t))
          /\ \A sid \in AllSids :
               Stored(store', storageInstance', sid) =
                 IF sid \in ExpiredAt(hOp'.t) THEN NoRec
                 ELSE Stored(store, storageInstance, sid)]_vars

\* a sweep removed one session and left another, which holds a message
C23_Witness ==
  /\ hOp.op = "deleteExpiredSessions"
  /\ hOp.count = 1
  /\ \E sid \in AllSids : Stored(store, storageInstance, sid).messages # <<>>

(***************************************************************************)
(* Claims about getStorage, stated on its direct callers.                  *)
(***************************************************************************)
\* the calls that started a probe
Probed == { c \in StorageCallers : storageCalls[c].pc = "probing"
                                     \/ storageCalls[c].probe # "none" }

Returned == { c \in StorageCallers : storageCalls[c].pc = "returned" }

\* C24: whatever getStorage calls were made, concurrent ones included, at
\* most one of them probed, at most one adapter was constructed and
\* memoized, and all calls that returned hold the same adapter.
C24_OneProbeOneAdapter ==
  /\ Cardinality(Probed) <= 1
  /\ Len(adapterKind) <= 1
  /\ \A c, d \in Returned : storageCalls[c].storage = storageCalls[d].storage

\* C25: a getStorage call that has settled has returned an adapter; when it
\* probed, the adapter is the durable one if the ping answered before the
\* timeout and the volatile one if the probe failed or timed out.
C25_AdapterFollowsProbe ==
  \A c \in Returned :
    LET call == storageCalls[c]
    IN /\ call.storage \in 1..Len(adapterKind)
       /\ call.probe = "pong" => adapterKind[call.storage] = "mongo"
       /\ call.probe \in {"importFailed", "pingFailed", "timeout"}
            => adapterKind[call.storage] = "memory"

\* the probe of one call timed out, and a later call got the volatile adapter
\* that call memoized
C25_Witness ==
  \E c, d \in Returned :
    /\ storageCalls[c].probe = "timeout"
    /\ storageCalls[d].probe = "none"
    /\ storageCalls[d].storage = storageCalls[c].storage
    /\ adapterKind[storageCalls[d].storage] = "memory"

\* the sweep of the bound adapter at t, the storage answering, removes sid
SweepRemoves(sid, t) ==
  \A out \in deleteExpiredSessions(store, storageInstance, t) :
    ~out.threw => Stored(out.st, storageInstance, sid).id = 0

\* C28: for every stored session and every instant, isSessionExpired, the
\* sweep of the bound adapter and, on the volatile adapter, getSession agree
\* on whether the session is expired, and it is exactly when the instant is
\* later than expiresAt; at the instant expiresAt itself it is not.
C28_OneExpiryPredicate ==
  \A sid \in AllSids, t \in Instants \cup {HourSeconds} :
    LET session == Stored(store, storageInstance, sid)
        expired == isSessionExpired(session.expiresAt, t)
    IN session.id # 0
       => /\ expired <=> t > session.expiresAt
          /\ expired <=> SweepRemoves(sid, t)
          /\ adapterKind[storageInstance] = "memory"
               => (expired <=>
                     InMemoryStorage_getSession(store, storageInstance, sid, t)
                       .ret.kind = "null")

\* a sweep at the very instant a session expires has left the session
C28_Witness ==
  /\ hOp.op = "deleteExpiredSessions"
  /\ ~hOp.threw
  /\ \E sid \in AllSids :
       /\ Stored(store, storageInstance, sid).id # 0
       /\ Stored(store, storageInstance, sid).expiresAt = hOp.t

(***************************************************************************)
(* Claims about resolving sessions and about the session module.           *)
(***************************************************************************)
Resolutions == {"getOrCreateSession", "resolveSession"}

\* the session the last resolution was about, as stored before it and now
ResolvedNow ==
  IF hOp.op = "getOrCreateSession" THEN store.db[hOp.sid]
  ELSE Stored(store, storageInstance, hOp.sid)

\* the same messages, whatever their order
SameMessages(a, b) ==
  /\ Len(a) = Len(b)
  /\ \A m \in {a[i] : i \in 1..Len(a)} \cup {b[i] : i \in 1..Len(b)} :
       Cardinality({i \in 1..Len(a) : a[i] = m})
         = Cardinality({i \in 1..Len(b) : b[i] = m})

\* C26: a resolution under an explicit identifier whose session exists since
\* an earlier resolution and has not expired leaves the stored session as it
\* was - nothing created, nothing deleted - and returns that session with
\* every message appended to it so far.
C26_ResolveAgainSameSession ==
  (/\ hOp.op \in Resolutions
   /\ hOp.sid \in ClientSids
   /\ hOp.pre.id # 0
   /\ ~isSessionExpired(hOp.pre.expiresAt, hOp.t)
   /\ ~hOp.threw)
    => /\ ResolvedNow = hOp.pre
       /\ hOp.session.kind # "null"
       /\ SameMessages(hOp.messages, hOp.pre.appended)

\* a session was resolved, a message was appended, and the next resolution
\* returned it
C26_Witness ==
  /\ hOp.op \in Resolutions
  /\ hCount = 3
  /\ hOp.pre.id # 0
  /\ ~hOp.threw
  /\ Len(hOp.messages) = 1
  /\ ResolvedNow = hOp.pre

\* C27: a resolution of a session whose expiry has passed, the storage
\* answering, leaves under the identifier a fresh session without messages
\* that expires at the clock plus the configured window, and returns it: the
\* expired session and its messages are stored no more, so nothing is left
\* of them to send upstream or to return to a history fetch.
C27_ExpiredSessionReplaced ==
  (/\ hOp.op \in Resolutions
   /\ hOp.pre.id # 0
   /\ isSessionExpired(hOp.pre.expiresAt, hOp.t)
   /\ ~hOp.threw)
    => /\ ResolvedNow.id \notin {0, hOp.pre.id}
       /\ ResolvedNow.messages = <<>>
       /\ ResolvedNow.appended = <<>>
       /\ ResolvedNow.expiresAt = getSessionExpiresAt(hOp.t)
       /\ hOp.session.kind # "null"
       /\ hOp.messages = <<>>

\* a session that held a message was resolved after its expiry
C27_Witness ==
  /\ hOp.op \in Resolutions
  /\ hOp.pre.messages # <<>>
  /\ isSessionExpired(hOp.pre.expiresAt, hOp.t)
  /\ ~hOp.threw
  /\ ResolvedNow.messages = <<>>

\* C29: refreshSession, deleteSession and cleanupExpiredSessions of the
\* session module do not throw; when their query is rejected, deleteSession
\* returns false and cleanupExpiredSessions returns 0.
C29_LifecycleNeverThrows ==
  hOp.op \in {"refreshSession", "session.deleteSession", "cleanupExpiredSessions"}
    => /\ ~hOp.threw
       /\ hOp.failed => ~hOp.deleted /\ hOp.count = 0

\* a deleteSession of the module whose query was rejected returned false
C29_Witness ==
  /\ hOp.op = "session.deleteSession"
  /\ hOp.failed
  /\ ~hOp.threw
  /\ ~hOp.deleted

(***************************************************************************)
(* Claims about the error event.                                           *)
(***************************************************************************)
\* C30: the error event the stream ends with carries a text that is not
\* empty, whatever the upstream call or the storage write rejected with.
C30_ErrorTextNotEmpty ==
  \A i \in 1..Len(caller.events) :
    caller.events[i].type = "error" => caller.events[i].error # ""

(***************************************************************************)
(* Claims about the helpers.                                               *)
(***************************************************************************)
EndsWithEllipsis(str) ==
  Len(str) >= 3 /\ SubSeq(str, Len(str) - 2, Len(str)) = Ellipsis

\* what is claimed of truncate(str, maxLength) = out
TruncateAsClaimed(str, maxLength, out) ==
  IF Len(str) <= maxLength THEN out = str
  ELSE Len(out) = maxLength /\ EndsWithEllipsis(out)

\* C31, as stated: for every string and every maximum length, truncate
\* returns the string itself when it is not longer than the maximum, and
\* otherwise a string of exactly the maximum length that ends with "...".
C31_TruncateExactlyMax ==
  hOp.op = "truncate"
    => TruncateAsClaimed(hOp.input.str, hOp.input.maxLength, hOp.output)

\* C31, amended: the same for every maximum length of at least 3.
C31_TruncateExactlyMaxFrom3 ==
  (hOp.op = "truncate" /\ hOp.input.maxLength >= 3)
    => TruncateAsClaimed(hOp.input.str, hOp.input.maxLength, hOp.output)

\* a string was cut to a maximum of 4: one character and the ellipsis
C31_Witness ==
  /\ hOp.op = "truncate"
  /\ hOp.input.maxLength = 4
  /\ Len(hOp.input.str) > 4
  /\ hOp.output = <<hOp.input.str[1]>> \o Ellipsis

\* C32: toAnthropicMessages gives one payload per message, in order and with
\* the message's role; for a message with images the payload is an array
\* whose first blocks are the images, one per image and in their order, each
\* with the image's media type and data, followed by nothing but the text
\* block, which is there when the message has text; for a message without
\* images the payload is the message's text.
C32_TranslationKeepsOrderImagesFirst ==
  hOp.op = "toAnthropicMessages"
    => /\ Len(hOp.output) = Len(hOp.input.messages)
       /\ \A i \in 1..Len(hOp.input.messages) :
            LET msg == hOp.input.messages[i]
                out == hOp.output[i]
                n == Len(msg.images)
            IN /\ out.role = msg.role
               /\ IF n = 0
                  THEN out.kind = "text" /\ out.text = msg.content
                  ELSE /\ out.kind = "blocks"
                       /\ Len(out.blocks) = n + (IF msg.content # <<>> THEN 1 ELSE 0)
                       /\ \A k \in 1..n :
                            /\ out.blocks[k].type = "image"
                            /\ out.blocks[k].media_type = msg.images[k].mimeType
                            /\ out.blocks[k].data = msg.images[k].data
                       /\ msg.content # <<>>
                            => /\ out.blocks[n + 1].type = "text"
                               /\ out.blocks[n + 1].text = msg.content

\* a text-only message followed by a message with two different images and text
C32_Witness ==
  /\ hOp.op = "toAnthropicMessages"
  /\ Len(hOp.input.messages) = 2
  /\ hOp.input.messages[1].images = <<>>
  /\ Len(hOp.input.messages[2].images) = 2
  /\ hOp.input.messages[2].images[1] # hOp.input.messages[2].images[2]
  /\ hOp.input.messages[2].content # <<>>
  /\ hOp.output[2].blocks[3].type = "text"

\* C33: a request that passed validation ends: its handler gets to completed
\* or errored with the stream closed, or returns the 500 response before a
\* stream was opened; and the generator of a request never makes more than
\* MAX_RETRIES upstream calls and, once opened, returns or throws.
C33_AcceptedRequestEndsAndCloses ==
  /\ (req[1].pc = "getStorage")
       ~> \/ req[1].pc \in {"completed", "errored"} /\ req[1].closed
          \/ req[1].pc = "http500"
  /\ (req[1].gen.st = "open") ~> (req[1].gen.st \in {"returned", "threw"})
  /\ [](req[1].gen.attempt <= MAX_RETRIES)

\* a request ended with the error event after MAX_RETRIES upstream calls
C33_Witness ==
  /\ req[1].pc = "errored"
  /\ req[1].closed
  /\ req[1].gen.st = "threw"
  /\ req[1].gen.attempt = MAX_RETRIES

\* C34: after createSession on an identifier that had a session, the session
\* stored under the identifier is the old one, unchanged, when the call
\* failed, and has no message when it returned.
C34_CreateOverExistingNeverMerges ==
  (hOp.op = "createSession" /\ hOp.pre.id # 0)
    => LET cur == Stored(store, storageInstance, hOp.sid)
       IN IF hOp.threw THEN cur = hOp.pre
          ELSE cur.id # 0 /\ cur.id # hOp.pre.id /\ cur.messages = <<>>

\* createSession returned for an identifier whose session had messages
C34_Witness ==
  /\ hOp.op = "createSession"
  /\ hOp.pre.id # 0
  /\ hOp.pre.messages # <<>>
  /\ ~hOp.threw
  /\ Stored(store, storageInstance, hOp.sid).messages = <<>>

\* C35: the messages of a Session value that getSession or createSession
\* returned and the caller still holds are the ones it had when it was
\* returned, whatever was called on the store since.
C35_HeldSessionUnchanged ==
  hOp.held # NoHeld => SessionMessages(store, hOp.held.session) = hOp.held.messages

\* C36: when the outer catch of POST /api/chat has run (request.json() or a
\* storage call rejected before the stream was made), the response is 500
\* INTERNAL_ERROR with the message "Internal server error", which is not the
\* message of what was caught, and there is no stream: no event, no upstream
\* call, no X-Session-Id header; a body that is not JSON always ends so.  The
\* 500 response of the history route has the same code and message.
C36_EarlyFailureIsGeneric500 ==
  /\ \A r \in Reqs :
       /\ req[r].caught # <<>>
            => /\ req[r].pc = "http500"
               /\ req[r].status = 500
               /\ req[r].code = "INTERNAL_ERROR"
               /\ req[r].message = InternalErrorText
               /\ req[r].message # errorMessage(req[r].caught[1])
               /\ req[r].events = <<>>
               /\ ~req[r].closed
               /\ req[r].gen = NewGen
               /\ req[r].headerSid = ""
       /\ (req[r].pc # "idle" /\ ~req[r].body.json) => req[r].caught # <<>>
       /\ req[r].status = 500 => req[r].caught # <<>>
  /\ (hOp.op = "history" /\ hOp.status = 500)
       => /\ hOp.code = "INTERNAL_ERROR"
          /\ hOp.output = InternalErrorText
          /\ hOp.output # DbError

\* the write of the user message was rejected after the session was created
C36_Witness ==
  /\ req[1].pc = "http500"
  /\ req[1].caught = <<Err(DbError)>>
  /\ req[1].userMessage # <<>>
  /\ req[1].session # Null
  /\ req[1].message = InternalErrorText

\* C38: with one request at a time on a session, every assistant message of
\* the stored history comes right after a user message, and the assistant
\* message a completed request stored comes right after the user message
\* that request stored, whenever the clock was read in between.
C38_AssistantFollowsItsUser ==
  \A r \in Reqs :
    req[r].pc = "completed"
      => LET h == Stored(store, req[r].storage, req[r].sessionId).messages
             n == Len(h)
         IN /\ \A i \in 1..n :
                 h[i].role = "assistant" => i > 1 /\ h[i - 1].role = "user"
            /\ n >= 2
            /\ h[n].role = "assistant"
            /\ h[n].content = req[r].assistantResponse
            /\ h[n - 1].content = req[r].userMessage

TerminalCalls(calls) ==
  { i \in 1..Len(calls) : calls[i].cb \in {"onDone", "onError"} }

\* C39: a sendChatMessage call that has returned has invoked onDone or onError
\* exactly once, as its last callback; before that it has invoked neither.
C39_OneTerminalCallbackLast ==
  /\ client.pc = "returned"
       => TerminalCalls(client.calls) = {Len(client.calls)} /\ client.calls # <<>>
  /\ client.pc \in {"fetching", "reading"} => TerminalCalls(client.calls) = {}

====
